---------------------------- MODULE Spec2Model ----------------------------
(***************************************************************************)
(* A model of paltas' ConfigHandler (src/paltas/Configs/config_handler.py): *)
(* the draw_image pipeline (reseed, sample, standard / drizzle render,     *)
(* point-source criteria and metadata, masking, seed stamp).               *)
(*                                                                         *)
(* Python values are tagged records so that values of different Python     *)
(* types can sit in one dict: [num |-> n] is the int n, [float |-> x] a     *)
(* float, given exactly as the double x.m * 2^x.e it is (pixel scales and  *)
(* the mask radius are floats, in arcsec), [str |-> s], [bool |-> b],      *)
(* [none |-> 0] is None, [nan |-> 0] is numpy.nan, [list |-> seq], and    *)
(* [dist |-> name] is a callable of the configuration (a distribution).   *)
(* A dict is a function from its keys; "k in d" is k \in DOMAIN d.          *)
(*                                                                         *)
(* Two processes are modelled side by side: the process under study and a  *)
(* twin process that builds a handler from the same configuration module   *)
(* and receives the same calls, but whose random generators are in        *)
(* another state when the handler is constructed.                          *)
(***************************************************************************)
EXTENDS Integers, Sequences, FiniteSets, TLC

VARIABLES
  self,                   \* the ConfigHandler instance: its attributes
  np_random,              \* state of numpy's global random generator
  numba_random,           \* state of numba's separate random generator
  SERIALIZATIONWARNING,   \* module-level warning filter
  KWARGSNUMERICWARNING1,  \* module-level warning filter
  KWARGSNUMERICWARNING2,  \* module-level warning filter
  warned,                 \* warnings.warn calls so far, by kind
  ret,                    \* what the caller has seen: the public method it
                          \* called last and the outcome of its last
                          \* draw_image call
  twin                    \* the twin process: a record of all of the above

vars == <<self, np_random, numba_random, SERIALIZATIONWARNING,
          KWARGSNUMERICWARNING1, KWARGSNUMERICWARNING2, warned, ret, twin>>

-----------------------------------------------------------------------------
(* Bounds of the model *)

\* calls of the public methods (draw_image, reseed, draw_new_sample,
\* get_lenstronomy_models_kwargs, get_metadata) the caller makes
MaxCalls == 2
\* number of states of a random generator
RngMod == 8
\* numpix of the configuration module
NumPix == 3

-----------------------------------------------------------------------------
(* Python values *)

Num(n) == [num |-> n]
Str(s) == [str |-> s]
Bool(b) == [bool |-> b]
None == [none |-> 0]
NaN == [nan |-> 0]
List(q) == [list |-> q]
Tuple(q) == [tuple |-> q]
Dist(d) == [dist |-> d]
Float(x) == [float |-> x]

IsNum(v) == DOMAIN v = {"num"}
IsBool(v) == DOMAIN v = {"bool"}
IsStr(v) == DOMAIN v = {"str"}
IsNone(v) == DOMAIN v = {"none"}
IsNaN(v) == DOMAIN v = {"nan"}
IsDist(v) == DOMAIN v = {"dist"}
IsFloat(v) == DOMAIN v = {"float"}

EmptyDict == [k \in {} |-> None]
\* a dict with the optional key k: absent, or one of the values V
OptKey(k, V) == {EmptyDict} \cup {k :> v : v \in V}

Max(a, b) == IF a >= b THEN a ELSE b
Min(a, b) == IF a <= b THEN a ELSE b
Abs(a) == IF a < 0 THEN -a ELSE a

RECURSIVE SumSeq(_)
SumSeq(q) == IF q = <<>> THEN 0 ELSE Head(q) + SumSeq(Tail(q))

-----------------------------------------------------------------------------
(* Python floats.  A float is an IEEE double: its value is m * 2^e, m a    *)
(* natural number of at most 53 bits.  m is held as a sequence of limbs of *)
(* 15 bits, least significant first, without leading zero limbs (<<>> is   *)
(* 0), and is odd unless it is 0, so that equal floats are equal records.  *)
(* Only floats >= 0 within the normal range occur.                         *)

LimbBase == 32768

\* the limbs of the natural number n
RECURSIVE NatLimbs(_)
NatLimbs(n) == IF n = 0 THEN <<>> ELSE <<n % LimbBase>> \o NatLimbs(n \div LimbBase)

\* the natural number of the limbs a
RECURSIVE LimbsNat(_)
LimbsNat(a) == IF a = <<>> THEN 0 ELSE Head(a) + LimbBase * LimbsNat(Tail(a))

\* a without its leading zero limbs
RECURSIVE Trim(_)
Trim(a) == IF a # <<>> /\ a[Len(a)] = 0 THEN Trim(SubSeq(a, 1, Len(a) - 1)) ELSE a

Limb(a, i) == IF i <= Len(a) THEN a[i] ELSE 0

\* a < b of the limbs from the i-th down, a and b having as many limbs
RECURSIVE LessFrom(_, _, _)
LessFrom(a, b, i) ==
  IF i = 0 THEN FALSE
  ELSE IF a[i] # b[i] THEN a[i] < b[i] ELSE LessFrom(a, b, i - 1)

\* a < b
Less(a, b) ==
  IF Len(a) # Len(b) THEN Len(a) < Len(b) ELSE LessFrom(a, b, Len(a))

\* the limbs of a - b from the i-th up, the limbs below having borrowed
RECURSIVE SubFrom(_, _, _, _)
SubFrom(a, b, i, borrow) ==
  IF i > Len(a) THEN <<>>
  ELSE LET t == a[i] - Limb(b, i) - borrow
       IN <<t % LimbBase>> \o SubFrom(a, b, i + 1, IF t < 0 THEN 1 ELSE 0)

\* a - b, for a >= b
Sub(a, b) == Trim(SubFrom(a, b, 1, 0))

\* a * k + carry, for k <= LimbBase
RECURSIVE MulSmall(_, _, _)
MulSmall(a, k, carry) ==
  IF a = <<>> THEN NatLimbs(carry)
  ELSE LET t == Head(a) * k + carry
       IN <<t % LimbBase>> \o MulSmall(Tail(a), k, t \div LimbBase)

\* a + b + carry
RECURSIVE Add(_, _, _)
Add(a, b, carry) ==
  IF a = <<>> /\ b = <<>> THEN NatLimbs(carry)
  ELSE LET t == Limb(a, 1) + Limb(b, 1) + carry
       IN <<t % LimbBase>> \o Add(SubSeq(a, 2, Len(a)), SubSeq(b, 2, Len(b)),
                                  t \div LimbBase)

\* a * b
RECURSIVE Mul(_, _)
Mul(a, b) ==
  IF a = <<>> \/ b = <<>> THEN <<>>
  ELSE Add(MulSmall(a, Head(b), 0), <<0>> \o Mul(a, Tail(b)), 0)

\* a * 2^k
Shl(a, k) ==
  IF a = <<>> THEN <<>>
  ELSE MulSmall([i \in 1 .. k \div 15 |-> 0] \o a, 2 ^ (k % 15), 0)

\* a \div 2^k
Shr(a, k) ==
  LET q == k \div 15
      r == 2 ^ (k % 15)
  IN Trim([i \in 1 .. Len(a) - q |->
             (a[q + i] \div r) + (Limb(a, q + i + 1) % r) * (LimbBase \div r)])

\* the number of bits of a
BitLen(a) ==
  IF a = <<>> THEN 0
  ELSE 15 * (Len(a) - 1)
       + (CHOOSE b \in 1 .. 15 : 2 ^ (b - 1) <= a[Len(a)] /\ a[Len(a)] < 2 ^ b)

\* the float m * 2^e with m made odd
Normal(m, e) ==
  IF m = <<>> THEN [m |-> <<>>, e |-> 0]
  ELSE LET i == CHOOSE i \in 1 .. Len(m) : m[i] # 0 /\ \A j \in 1 .. i - 1 : m[j] = 0
           t == CHOOSE t \in 0 .. 14 : m[i] % 2 ^ (t + 1) = 2 ^ t
           z == 15 * (i - 1) + t
       IN [m |-> Shr(m, z), e |-> e + z]

\* the double nearest to (m + f) * 2^e, ties to the even one: f is 0, or
\* when sticky some fraction 0 < f < 1
RoundTo53(m, e, sticky) ==
  LET k == BitLen(m) - 53
      q == Shr(m, k)
      rest == Sub(m, Shl(q, k))
      half == Shl(<<1>>, k - 1)
      up == Less(half, rest) \/ (rest = half /\ (sticky \/ q[1] % 2 = 1))
  IN IF k <= 0 THEN Normal(m, e)
     ELSE Normal(IF up THEN MulSmall(q, 1, 1) ELSE q, e + k)

\* the digit r \div y of a quotient: q or less
RECURSIVE QuotientDigit(_, _, _)
QuotientDigit(r, y, q) ==
  IF q > 0 /\ Less(r, MulSmall(y, q, 0)) THEN QuotientDigit(r, y, q - 1) ELSE q

\* the quotient and the remainder of a by y, long division from the top limb
\* of a down: s.q is the quotient of the limbs divided so far and s.r their
\* remainder.  The top limb of y is LimbBase / 2 or more, so that the digit
\* estimated from the top limbs is at most 2 too large
RECURSIVE LongDiv(_, _, _)
LongDiv(s, a, y) ==
  IF Len(s.q) = Len(a) THEN s
  ELSE LET r == Trim(<<a[Len(a) - Len(s.q)]>> \o s.r)
           n == Len(y)
           est == Min(LimbBase - 1,
                      (Limb(r, n + 1) * LimbBase + Limb(r, n)) \div y[n])
           d == QuotientDigit(r, y, est)
       IN LongDiv([q |-> <<d>> \o s.q,
                   r |-> IF d = 0 THEN r ELSE Sub(r, MulSmall(y, d, 0))],
                  a, y)

\* x / y of two floats, y > 0: the quotient to 55 binary digits, rounded
FloatDiv(x, y) ==
  LET k == 55 + BitLen(y.m) - BitLen(x.m)
      t == (15 - (BitLen(y.m) % 15)) % 15
      s == LongDiv([q |-> <<>>, r |-> <<>>], Shl(x.m, k + t), Shl(y.m, t))
  IN RoundTo53(Trim(s.q), x.e - y.e - k, s.r # <<>>)

\* n * x of an int (0 <= n <= LimbBase) and a float
IntTimesFloat(n, x) == RoundTo53(Trim(MulSmall(x.m, n, 0)), x.e, FALSE)

\* float(n) of an int n >= 0
FloatOfInt(n) == Normal(NatLimbs(n), 0)

\* int(x) of a float x >= 0
Trunc(x) == LimbsNat(IF x.e >= 0 THEN Shl(x.m, x.e) ELSE Shr(x.m, 0 - x.e))

\* x < y of two floats
FloatLess(x, y) ==
  Less(Shl(x.m, x.e - Min(x.e, y.e)), Shl(y.m, y.e - Min(x.e, y.e)))

\* x * y of two floats
FloatMul(x, y) == RoundTo53(Trim(Mul(x.m, y.m)), x.e + y.e, FALSE)

\* x + y of two floats
FloatAdd(x, y) ==
  RoundTo53(Trim(Add(Shl(x.m, x.e - Min(x.e, y.e)), Shl(y.m, y.e - Min(x.e, y.e)), 0)),
            Min(x.e, y.e), FALSE)

\* |x - y| of two floats
FloatAbsDiff(x, y) ==
  LET a == Shl(x.m, x.e - Min(x.e, y.e))
      b == Shl(y.m, y.e - Min(x.e, y.e))
  IN RoundTo53(IF Less(a, b) THEN Sub(b, a) ELSE Sub(a, b), Min(x.e, y.e), FALSE)

\* sqrt(s) <= x of two floats, sqrt(s) being the double nearest to the root
\* of s: the root is never half-way between two doubles, so that it rounds
\* to x or less exactly when it is below the point half-way between x and
\* the double after x, (2 * m + 1) * 2^(e - 1) for x = m * 2^e, m of 53 bits
SqrtAtMost(s, x) ==
  LET k == 53 - BitLen(x.m)
      h == MulSmall(Shl(x.m, k), 2, 1)
  IN IF x.m = <<>> THEN s.m = <<>>
     ELSE FloatLess(s, [m |-> Mul(h, h), e |-> 2 * (x.e - k - 1)])

\* sqrt(s) < x of two floats: the root is below the point half-way between
\* x and the double before x, which is half as far when x is a power of 2
SqrtLess(s, x) ==
  LET k == 53 - BitLen(x.m)
      t == IF x.m = <<1>> THEN 2 ELSE 1
      h == Sub(Shl(x.m, k + t), <<1>>)
  IN IF x.m = <<>> THEN FALSE
     ELSE FloatLess(s, [m |-> Mul(h, h), e |-> 2 * (x.e - k - t)])

\* the float a literal of the configuration denotes: the double nearest to
\* k / d (0.08 is FloatLiteral(8, 100))
FloatLiteral(k, d) == Float(FloatDiv(FloatOfInt(k), FloatOfInt(d)))

\* an int or float as a float
ToFloat(v) == IF IsNum(v) THEN FloatOfInt(v.num) ELSE v.float

\* an int or float to the nearest 0.01, in units of 0.01: the libraries
\* outside this repository (lenstronomy's caustics, hubblify) are modelled
\* on arcsec values to two decimals.  The float x is bound, so that
\* it is worked out once
Hundredths(v) ==
  CHOOSE h \in {LET t == MulSmall(x.m, 100, 0)
                    y == IF x.e + 1 >= 0 THEN Shl(t, x.e + 1)
                         ELSE Shr(t, 0 - (x.e + 1))
                IN LimbsNat(Shr(MulSmall(y, 1, 1), 1)) : x \in {ToFloat(v)}} : TRUE


-----------------------------------------------------------------------------
(* The random generators *)

\* one step of a generator: the value drawn is the state, the state advances
RngNext(s) == (5 * s + 3) % RngMod

\* numpy.random.seed(seed) for a tuple seed: the state is a function of the
\* whole tuple
RECURSIVE SeedState(_)
SeedState(seed) ==
  IF seed = <<>> THEN 1
  ELSE (3 * SeedState(SubSeq(seed, 1, Len(seed) - 1)) + seed[Len(seed)]) % RngMod


-----------------------------------------------------------------------------
(* Configuration modules: the .py file a ConfigHandler is built from.  An  *)
(* attribute the file does not define is a key the record does not have.    *)

\* 'parameters' of the components every configuration has
MainDeflectorParameters ==
  [theta_E |-> Dist("theta_E"), center_x |-> Num(0), center_y |-> Num(0),
   z_lens |-> Num(50)]
SourceParameters == [z_source |-> Num(150), center_x |-> Num(1)]
CosmologyParameters == [cosmology_name |-> Str("planck18")]
DetectorParameters == [pixel_scale |-> FloatLiteral(8, 100), ccd_gain |-> Num(2)]
PsfGaussian == [psf_type |-> Str("GAUSSIAN"), fwhm |-> Num(3)]
PsfPixel == [psf_type |-> Str("PIXEL")]

\* point-source 'parameters': the time-delay request with or without
\* kappa_ext and time_delay_errors, and mag_pert lists of 1, 4 or 5 entries
PointSourceBase(td) ==
  [x_point_source |-> Num(1), y_point_source |-> Num(0),
   compute_time_delays |-> Bool(td)]
TimeDelayVariants ==
  {PointSourceBase(FALSE), PointSourceBase(TRUE)}
  \cup {PointSourceBase(TRUE) @@ ("kappa_ext" :> Num(0)) @@ e :
          e \in OptKey("time_delay_errors", {List(<<1, 2, 3, 4>>)})}
PointSourceVariants ==
  {t @@ m : t \in TimeDelayVariants,
            m \in OptKey("mag_pert", {List(<<2>>), List(<<1, 2, 1, 2>>),
                                      List(<<2, 1, 2, 1, 2>>)})}
PointSourceBasic == PointSourceBase(FALSE)

\* drizzle 'parameters'
DrizzleBase ==
  [supersample_pixel_scale |-> FloatLiteral(4, 100),
   output_pixel_scale |-> FloatLiteral(6, 100),
   wcs_distortion |-> None, offset_pattern |-> List(<<0, 1>>)]
DrizzleVariants ==
  {DrizzleBase @@ f : f \in OptKey("psf_supersample_factor",
                                   {Num(1), Num(2), Num(4)})}
PsfVariants ==
  {PsfGaussian}
  \cup {PsfPixel @@ f : f \in OptKey("point_source_supersampling_factor",
                                     {Num(1), Num(2)})}

\* kwargs_numerics of the configuration module
NumericsVariants ==
  {[supersampling_factor |-> Num(1)],
   [supersampling_factor |-> Num(4), supersampling_convolution |-> Bool(TRUE),
    point_source_supersampling_factor |-> Num(5)]}

Component(class, parameters) == [class |-> class, parameters |-> parameters]

BaseDict(sourceClass, psf) ==
  [main_deflector |-> Component(Str("PEMD"), MainDeflectorParameters),
   source |-> Component(Str(sourceClass), SourceParameters),
   cosmology |-> Component(None, CosmologyParameters),
   psf |-> Component(None, psf),
   detector |-> Component(None, DetectorParameters)]

WithPointSource(d, ps) ==
  d @@ ("point_source" :> Component(Str("SinglePointSource"), ps))
WithDrizzle(d, dz) == d @@ ("drizzle" :> Component(None, dz))

\* config_dict with or without the 'drizzle' entry
MaybeDrizzle(d) == {d, WithDrizzle(d, DrizzleBase @@ ("psf_supersample_factor" :> Num(2)))}

BaseModule(d, numerics) ==
  [config_dict |-> d, kwargs_numerics |-> numerics, numpix |-> NumPix]

\* the point-source selection criteria, over every point-source variant; the
\* magnification cut rejects some of the samples with two to five images
CriteriaModules ==
  {BaseModule(dd, [supersampling_factor |-> Num(1)]) @@ q @@ dq @@ c :
     dd \in UNION {MaybeDrizzle(WithPointSource(BaseDict("SingleSersicSource", PsfGaussian), ps)) :
                     ps \in PointSourceVariants},
     q \in OptKey("quads_only", {TRUE}),
     dq \in OptKey("doubles_quads_only", {TRUE}),
     c \in OptKey("ps_magnification_cut", {Num(2)})}

\* mag_cut, mask_radius and no_noise, with and without a point source
FacadeModules ==
  {BaseModule(dd, [supersampling_factor |-> Num(1)]) @@ mc @@ mr @@ nn :
     dd \in UNION {MaybeDrizzle(d) :
                     d \in {BaseDict("GalaxyCatalog", PsfGaussian),
                            WithPointSource(BaseDict("GalaxyCatalog", PsfGaussian),
                                            PointSourceBasic)}},
     mc \in OptKey("mag_cut", {Num(2)}),
     mr \in OptKey("mask_radius", {FloatLiteral(8, 100)}),
     nn \in OptKey("no_noise", {TRUE})}

\* the drizzle settings
DrizzleModules ==
  {BaseModule(WithDrizzle(BaseDict("GalaxyCatalog", psf), dz), numerics) :
     psf \in PsfVariants, dz \in DrizzleVariants, numerics \in NumericsVariants}

\* drizzle with the pixel scales 0.15 and 0.05, whose quotient as floats is
\* 2.9999999999999996: psf_supersample_factor absent or 3
CoarseDrizzleModules ==
  {BaseModule(
     WithDrizzle(
       [BaseDict("GalaxyCatalog", PsfGaussian) EXCEPT
          !.detector.parameters.pixel_scale = FloatLiteral(15, 100)],
       [DrizzleBase EXCEPT !.supersample_pixel_scale = FloatLiteral(5, 100)] @@ f),
     [supersampling_factor |-> Num(4), supersampling_convolution |-> Bool(TRUE),
      point_source_supersampling_factor |-> Num(5)]) :
     f \in OptKey("psf_supersample_factor", {Num(3)})}

\* the double 0.1131370849898476: np.sqrt(x_grid**2 + y_grid**2) of the
\* corners of 3 x 3 pixels of scale 0.08, less than 0.08 * sqrt(2)
CornerRadius == Float([m |-> <<1245, 8190, 23093, 231>>, e |-> -56])

\* mask radii between the distances of the pixels from the centre, and the
\* distance of the corners as computed, with and without drizzle (an image
\* of 3 x 3 or of 4 x 4 pixels)
MaskModules ==
  {BaseModule(dd, [supersampling_factor |-> Num(1)]) @@ ("mask_radius" :> r) :
     dd \in MaybeDrizzle(BaseDict("SingleSersicSource", PsfGaussian)),
     r \in {FloatLiteral(76, 1000), FloatLiteral(1, 10), FloatLiteral(114, 1000),
            FloatLiteral(13, 100), CornerRadius}}

\* drizzle of a catalog source with the caustic area or the enclosed mass
\* asked of get_metadata
DrizzleMetadataModules ==
  {BaseModule(
     WithDrizzle(
       [BaseDict("GalaxyCatalog", PsfGaussian) EXCEPT
          !.main_deflector = Component(Str("PEMD"),
             MainDeflectorParameters
               @@ [sigma0 |-> Num(2), r_core |-> Num(1), gamma |-> Num(2)])],
       DrizzleBase @@ ("psf_supersample_factor" :> Num(2))),
     [supersampling_factor |-> Num(1)]) @@ flags :
     flags \in {[compute_caustic_area |-> TRUE], [compute_mass_enclosed |-> TRUE],
                [compute_caustic_area |-> TRUE, compute_mass_enclosed |-> TRUE]}}

\* the time-delay request without kappa_ext under a magnification cut that
\* the image passes (2) or fails (3)
MagCutTimeDelayModules ==
  {BaseModule(WithPointSource(BaseDict("SingleSersicSource", PsfGaussian),
                              PointSourceBase(TRUE)),
              [supersampling_factor |-> Num(1)]) @@ ("mag_cut" :> mc) :
     mc \in {Num(2), Num(3)}}

\* the seed attribute: absent, a number, or a tuple
SeedVariants == OptKey("seed", {Num(1), Tuple(<<2, 0>>)})

\* further seeds for the criteria modules: with them the samples drawn give
\* every image count
CriteriaSeeds == {Num(3), Num(7)}

\* the modules a handler is built from: every seed variant over the facade
\* modules, the criteria, drizzle and mask modules with a seed
ConfigModules ==
  {m @@ s : m \in FacadeModules, s \in SeedVariants}
  \cup {m @@ ("seed" :> Num(1)) :
          m \in CriteriaModules \cup DrizzleModules \cup CoarseDrizzleModules
                 \cup MaskModules \cup DrizzleMetadataModules}
  \cup {m @@ ("seed" :> s) :
          m \in {c \in CriteriaModules : "drizzle" \notin DOMAIN c.config_dict},
          s \in CriteriaSeeds}
  \cup {m @@ ("seed" :> s) :
          m \in MagCutTimeDelayModules, s \in {Num(1)} \cup CriteriaSeeds}

\* 'parameters' of the optional layers
LosParameters == [delta_los |-> Num(1)]
SubhaloParameters == [sigma_sub |-> Num(2)]
LensLightParameters == [z_source |-> Num(50), center_x |-> Num(0)]

\* a catalog source: the two pairs EXCLUDE_FROM_METADATA names (a string and
\* a list), with or without a list that it does not name
CatalogSourceVariants ==
  {SourceParameters @@ [cosmos_folder |-> Str("/data/cosmos"),
                        source_inclusion_list |-> List(<<3, 5>>),
                        random_rotation |-> Bool(TRUE)] @@ e :
     e \in OptKey("source_exclusion_list", {List(<<7>>)})}

\* a main deflector with the profile parameters the enclosed mass is read from
ProfileDeflectorParameters ==
  MainDeflectorParameters @@ [sigma0 |-> Num(2), r_core |-> Num(1), gamma |-> Num(2)]

\* config_dict with every combination of the optional layers
LayerDicts ==
  {BaseDict("GalaxyCatalog", PsfGaussian) @@ los @@ sub @@ ll @@ ps :
     los \in OptKey("los", {Component(Str("LOSDG19"), LosParameters)}),
     sub \in OptKey("subhalo", {Component(Str("SubhalosDG19"), SubhaloParameters)}),
     ll \in OptKey("lens_light", {Component(Str("SingleSersicSource"), LensLightParameters)}),
     ps \in OptKey("point_source", {Component(Str("SinglePointSource"), PointSourceBasic)})}
LayerModules ==
  {BaseModule(d, [supersampling_factor |-> Num(1)]) : d \in LayerDicts}

\* the modules that ask get_metadata for the caustic area or the enclosed
\* mass, over the catalog sources
MetadataModules ==
  {BaseModule([BaseDict("GalaxyCatalog", PsfGaussian) EXCEPT
                 !.source = Component(Str("GalaxyCatalog"), src),
                 !.main_deflector = Component(Str("PEMD"), ProfileDeflectorParameters)],
              [supersampling_factor |-> Num(1)]) @@ ca @@ me :
     src \in CatalogSourceVariants,
     ca \in OptKey("compute_caustic_area", {TRUE}),
     me \in OptKey("compute_mass_enclosed", {TRUE})}

\* a drizzle module for each kwargs_numerics
NumericsModules ==
  {BaseModule(WithDrizzle(BaseDict("GalaxyCatalog", PsfGaussian),
                          DrizzleBase @@ ("psf_supersample_factor" :> Num(2))),
              numerics) : numerics \in NumericsVariants}

\* the modules of a process that builds several handlers
ProcessModules ==
  {m @@ ("seed" :> Num(1)) : m \in LayerModules \cup MetadataModules \cup NumericsModules}

\* the module a later handler of the process may be built from, besides the
\* module of the handler before it: a catalog source with a list that
\* get_metadata cannot write
LaterModule ==
  BaseModule([BaseDict("GalaxyCatalog", PsfGaussian) EXCEPT
                !.source = Component(Str("GalaxyCatalog"),
                                     SourceParameters
                                     @@ [source_exclusion_list |-> List(<<7>>)])],
             [supersampling_factor |-> Num(1)])
  @@ ("seed" :> Num(1))

\* states the process random generators may be in when the handler is built
RngInits == 0 .. 1


-----------------------------------------------------------------------------
(* A process: the handler and the module-level state it works on.  The      *)
(* operations below are functions from the process state before a call to  *)
(* the process state after it (and the call's result).                     *)

Proc == [self |-> self, np_random |-> np_random, numba_random |-> numba_random,
         SERIALIZATIONWARNING |-> SERIALIZATIONWARNING,
         KWARGSNUMERICWARNING1 |-> KWARGSNUMERICWARNING1,
         KWARGSNUMERICWARNING2 |-> KWARGSNUMERICWARNING2,
         warned |-> warned, ret |-> ret]

NoWarnings == [serialization |-> 0, numerics1 |-> 0, numerics2 |-> 0, psf_factor |-> 0]

\* warnings.warn(...) of one kind
Warn(p, kind) == [p EXCEPT !.warned[kind] = @ + 1]

\* numpy.random.randint(...): the value drawn and the process afterwards
Randint(p) == [value |-> p.np_random,
               p |-> [p EXCEPT !.np_random = RngNext(@)]]

\* A value the sampler draws for a distribution of the configuration
DistValue(name, d) == d

\* Sampler.sample(): every component of config_dict becomes the sample's
\* '<component>_parameters', each distribution replaced by a value drawn from
\* numpy's global generator
Sampler_sample(p) ==
  LET cd == p.self.config_dict
      r == Randint(p)
      comp(ck) == CHOOSE c \in DOMAIN cd : c \o "_parameters" = ck
      drawn(v) == IF IsDist(v) THEN Num(DistValue(v.dist, r.value)) ELSE v
  IN [p |-> r.p,
      sample |-> [ck \in {c \o "_parameters" : c \in DOMAIN cd} |->
                    [k \in DOMAIN cd[comp(ck)].parameters |->
                       drawn(cd[comp(ck)].parameters[k])]]]

draw_new_sample(p) ==
  LET s == Sampler_sample(p) IN [s.p EXCEPT !.self.sample = s.sample]

get_current_sample(p) == p.self.sample

\* getattr(config_module, name, default)
Getattr(m, name, default) == IF name \in DOMAIN m THEN m[name] ELSE default

\* the class of a component of config_dict, or None
ClassOf(cd, c) == IF c \in DOMAIN cd THEN cd[c].class ELSE None

\* ConfigHandler.__init__ in a process whose state is p
ConfigHandler_init(m, p) ==
  LET \* the default of getattr is evaluated before the call: numpy's
      \* generator is advanced whether or not the module defines seed
      r == Randint(p)
      given == Getattr(m, "seed", Num(r.value))
      base_seed == IF IsNum(given) THEN <<given.num>> ELSE given.tuple
      p1 == r.p
      cd == m.config_dict
      h == [config_module |-> m,
            config_dict |-> cd,
            base_seed |-> base_seed,
            reseed_counter |-> 0,
            sample |-> None,
            kwargs_numerics |-> m.kwargs_numerics,
            numerics_is_module |-> TRUE,
            numpix |-> m.numpix,
            doubles_quads_only |-> Getattr(m, "doubles_quads_only", FALSE),
            quads_only |-> Getattr(m, "quads_only", FALSE),
            compute_caustic_area |-> Getattr(m, "compute_caustic_area", FALSE),
            compute_mass_enclosed |-> Getattr(m, "compute_mass_enclosed", FALSE),
            ps_magnification_cut |-> Getattr(m, "ps_magnification_cut", None),
            los_class |-> ClassOf(cd, "los"),
            subhalo_class |-> ClassOf(cd, "subhalo"),
            main_deflector_class |-> ClassOf(cd, "main_deflector"),
            lens_light_class |-> ClassOf(cd, "lens_light"),
            point_source_class |-> ClassOf(cd, "point_source"),
            source_class |-> cd["source"].class,
            do_drizzle |-> "drizzle" \in DOMAIN cd,
            mag_cut |-> Getattr(m, "mag_cut", None),
            add_noise |-> IF "no_noise" \in DOMAIN m THEN ~m.no_noise ELSE TRUE]
  IN draw_new_sample([p1 EXCEPT !.self = h])

\* reseed() that seeds numpy's generator only
reseed_NumbaUnseeded(p) ==
  LET seed == IF p.self.reseed_counter = 0 THEN p.self.base_seed
              ELSE Append(p.self.base_seed, p.self.reseed_counter)
  IN [seed |-> seed,
      p |-> [p EXCEPT !.np_random = RngNext(SeedState(seed)),
                      !.self.reseed_counter = @ + 1]]

\* reseed() with the counter advanced before the seed is formed
reseed_CounterFirst(p) ==
  LET seed == Append(p.self.base_seed, p.self.reseed_counter + 1)
      p1 == [p EXCEPT !.np_random = SeedState(seed),
                      !.self.reseed_counter = @ + 1]
      r == Randint(p1)
  IN [seed |-> seed, p |-> [r.p EXCEPT !.numba_random = r.value]]

\* ConfigHandler.reseed: the seed installed, and the process afterwards
reseed(p) ==
  LET seed == IF p.self.reseed_counter = 0 THEN p.self.base_seed
              ELSE Append(p.self.base_seed, p.self.reseed_counter)
      p1 == [p EXCEPT !.np_random = SeedState(seed),
                      !.self.reseed_counter = @ + 1]
      r == Randint(p1)
  IN [seed |-> seed, p |-> [r.p EXCEPT !.numba_random = r.value]]

-----------------------------------------------------------------------------
(* Metadata *)

EXCLUDE_FROM_METADATA ==
  {<<"source_parameters", "source_inclusion_list">>,
   <<"drizzle_parameters", "offset_pattern">>,
   <<"source_parameters", "cosmos_folder">>}

Pairs(sample) == {<<c, k>> : c \in DOMAIN sample, k \in UNION {DOMAIN sample[c] : c \in DOMAIN sample}}
SamplePairs(sample) == {ck \in Pairs(sample) : ck[2] \in DOMAIN sample[ck[1]]}

\* isinstance(v, (str, int, float)) or v is None; a bool is an int too
IsScalar(v) ==
  IsBool(v) \/ IsStr(v) \/ IsNum(v) \/ IsFloat(v) \/ IsNaN(v) \/ IsNone(v)

MetadataKey(c, k) == c \o "_" \o k

\* a bool written as it is
MetadataValue_KeepBool(v) == v

\* the value written for a scalar: int(v) for a bool, v itself otherwise
MetadataValue(v) == IF IsBool(v) THEN Num(IF v.bool THEN 1 ELSE 0) ELSE v

\* the loop warning every time it meets a value it cannot write
FlattenSample_WarnEveryTime(p) ==
  LET sample == get_current_sample(p)
      kept == {ck \in SamplePairs(sample) :
                 ck \notin EXCLUDE_FROM_METADATA /\ IsScalar(sample[ck[1]][ck[2]])}
      dropped == {ck \in SamplePairs(sample) :
                    ck \notin EXCLUDE_FROM_METADATA /\ ~IsScalar(sample[ck[1]][ck[2]])}
      pair(key) == CHOOSE ck \in kept : MetadataKey(ck[1], ck[2]) = key
      metadata == [key \in {MetadataKey(ck[1], ck[2]) : ck \in kept} |->
                     MetadataValue(sample[pair(key)[1]][pair(key)[2]])]
      warns == dropped # {}
  IN [metadata |-> metadata,
      p |-> IF warns
            THEN [Warn(p, "serialization") EXCEPT !.SERIALIZATIONWARNING = FALSE]
            ELSE p]

\* the loop of get_metadata over the components and keys of the sample: the
\* flattened metadata, and the process after the warning it may give
FlattenSample(p) ==
  LET sample == get_current_sample(p)
      kept == {ck \in SamplePairs(sample) :
                 ck \notin EXCLUDE_FROM_METADATA /\ IsScalar(sample[ck[1]][ck[2]])}
      dropped == {ck \in SamplePairs(sample) :
                    ck \notin EXCLUDE_FROM_METADATA /\ ~IsScalar(sample[ck[1]][ck[2]])}
      pair(key) == CHOOSE ck \in kept : MetadataKey(ck[1], ck[2]) = key
      metadata == [key \in {MetadataKey(ck[1], ck[2]) : ck \in kept} |->
                     MetadataValue(sample[pair(key)[1]][pair(key)[2]])]
      warns == dropped # {} /\ p.SERIALIZATIONWARNING
  IN [metadata |-> metadata,
      p |-> IF warns
            THEN [Warn(p, "serialization") EXCEPT !.SERIALIZATIONWARNING = FALSE]
            ELSE p]

-----------------------------------------------------------------------------
(* The population adapters (the classes named in config_dict).  Each turns  *)
(* its part of the sample into model names, kwargs and redshifts; the los   *)
(* and subhalo classes draw a population from the random generators.        *)

\* a drawn population of count halos, the i-th at redshift z0 + i - 1
Population(name, count, z0) ==
  [models |-> [i \in 1 .. count |-> name],
   kwargs |-> [i \in 1 .. count |->
                 [center_x |-> i, center_y |-> 0, index |-> i]],
   z |-> [i \in 1 .. count |-> z0 + i - 1]]

NoModels == [models |-> <<>>, kwargs |-> <<>>, z |-> <<>>]

\* los_class.draw_los() followed by calculate_average_alpha(): halos along
\* the line of sight and one interpolated correction
draw_los(sample, d) ==
  LET los == Population("NFW", d % 3, 10)
  IN [models |-> los.models \o <<"INTERPOL">>,
      kwargs |-> los.kwargs \o <<[center_x |-> 0, center_y |-> 0, index |-> 0]>>,
      z |-> los.z \o <<10>>]

\* subhalo_class.draw_subhalos(): subhalos at the main deflector's redshift
draw_subhalos(sample, d) ==
  Population("TNFW", d % 3, sample["main_deflector_parameters"].z_lens.num)

\* main_deflector_class.draw_main_deflector()
draw_main_deflector(sample) ==
  LET md == sample["main_deflector_parameters"]
      profile == [k \in DOMAIN md \cap {"sigma0", "r_core", "gamma"} |-> md[k].num]
  IN [models |-> <<"PEMD">>,
      kwargs |-> <<[center_x |-> md.center_x.num, center_y |-> md.center_y.num,
                    theta_E |-> md.theta_E.num] @@ profile>>,
      z |-> <<md.z_lens.num>>]

\* lens_light_class.draw_source()
draw_lens_light(sample) ==
  [models |-> <<"SERSIC_ELLIPSE">>,
   kwargs |-> <<[center_x |-> 0, center_y |-> 0]>>,
   z |-> <<sample["main_deflector_parameters"].z_lens.num>>]

\* point_source_class.draw_point_source()
draw_point_source(sample) ==
  LET ps == sample["point_source_parameters"]
  IN [models |-> <<"SOURCE_POSITION">>,
      kwargs |-> <<[ra_source |-> ps.x_point_source.num,
                    dec_source |-> ps.y_point_source.num]>>]

\* source_class.fill_catalog_i_phi_defaults(), called with no catalog index
\* and no angle: both are drawn at random
fill_catalog_i_phi_defaults(d) ==
  [catalog_i |-> Num(d % 4), phi |-> Num(d % 3)]

\* source_class.draw_source(): one light model at the source redshift
draw_source(sample, name, catalog_i) ==
  [models |-> <<name>>,
   kwargs |-> <<[center_x |-> sample["source_parameters"].center_x.num,
                 center_y |-> 0, image |-> catalog_i]>>,
   z |-> <<sample["source_parameters"].z_source.num>>]

\* set of the entries of a list
Range(q) == {q[i] : i \in DOMAIN q}

\* the bundle with the subhalo kwargs put before the line-of-sight kwargs
ModelsOfSample_SubhalosFirst(p0) ==
  LET sample == get_current_sample(p0)
      h == p0.self
      hasLos == h.los_class # None
      hasSub == h.subhalo_class # None
      isCatalog == h.source_class = Str("GalaxyCatalog")
      \* the adapters draw from the generator one after the other
      dLos == p0.np_random
      dSub == IF hasLos THEN RngNext(dLos) ELSE dLos
      dCat == IF hasSub THEN RngNext(dSub) ELSE dSub
      after == IF isCatalog THEN RngNext(dCat) ELSE dCat
      los == IF hasLos THEN draw_los(sample, dLos) ELSE NoModels
      sub == IF hasSub THEN draw_subhalos(sample, dSub) ELSE NoModels
      main == IF h.main_deflector_class # None
              THEN draw_main_deflector(sample) ELSE NoModels
      ll == IF h.lens_light_class # None
            THEN draw_lens_light(sample) ELSE NoModels
      ps == IF h.point_source_class # None
            THEN draw_point_source(sample) ELSE NoModels
      cat == fill_catalog_i_phi_defaults(dCat)
      src == IF isCatalog THEN draw_source(sample, "INTERPOL", cat.catalog_i.num)
             ELSE draw_source(sample, "SERSIC_ELLIPSE", 0)
      sample1 == IF isCatalog
                 THEN [sample EXCEPT !["source_parameters"] =
                         ("catalog_i" :> cat.catalog_i) @@ ("phi" :> cat.phi) @@ @]
                 ELSE sample
      complete_z_list == los.z \o sub.z \o main.z
      multi_plane == Cardinality(Range(src.z)) > 1
                     \/ Cardinality(Range(complete_z_list)) > 1
      z_source == sample["source_parameters"].z_source.num
  IN [p |-> [p0 EXCEPT !.self.sample = sample1, !.np_random = after],
      kwargs_model |->
        [lens_model_list |-> los.models \o sub.models \o main.models,
         lens_redshift_list |-> complete_z_list,
         lens_light_model_list |-> ll.models,
         point_source_model_list |-> ps.models,
         source_light_model_list |-> src.models,
         source_redshift_list |-> src.z,
         multi_plane |-> multi_plane,
         z_source |-> z_source,
         z_source_convention |-> z_source],
      kwargs_params |->
        [kwargs_lens |-> sub.kwargs \o los.kwargs \o main.kwargs,
         kwargs_lens_light |-> ll.kwargs,
         kwargs_ps |-> ps.kwargs,
         kwargs_source |-> src.kwargs]]

\* the body of get_lenstronomy_models_kwargs once the sample is settled: p0
\* is the process, with the current sample
ModelsOfSample(p0) ==
  LET sample == get_current_sample(p0)
      h == p0.self
      hasLos == h.los_class # None
      hasSub == h.subhalo_class # None
      isCatalog == h.source_class = Str("GalaxyCatalog")
      \* the adapters draw from the generator one after the other
      dLos == p0.np_random
      dSub == IF hasLos THEN RngNext(dLos) ELSE dLos
      dCat == IF hasSub THEN RngNext(dSub) ELSE dSub
      after == IF isCatalog THEN RngNext(dCat) ELSE dCat
      los == IF hasLos THEN draw_los(sample, dLos) ELSE NoModels
      sub == IF hasSub THEN draw_subhalos(sample, dSub) ELSE NoModels
      main == IF h.main_deflector_class # None
              THEN draw_main_deflector(sample) ELSE NoModels
      ll == IF h.lens_light_class # None
            THEN draw_lens_light(sample) ELSE NoModels
      ps == IF h.point_source_class # None
            THEN draw_point_source(sample) ELSE NoModels
      cat == fill_catalog_i_phi_defaults(dCat)
      src == IF isCatalog THEN draw_source(sample, "INTERPOL", cat.catalog_i.num)
             ELSE draw_source(sample, "SERSIC_ELLIPSE", 0)
      sample1 == IF isCatalog
                 THEN [sample EXCEPT !["source_parameters"] =
                         ("catalog_i" :> cat.catalog_i) @@ ("phi" :> cat.phi) @@ @]
                 ELSE sample
      complete_z_list == los.z \o sub.z \o main.z
      multi_plane == Cardinality(Range(src.z)) > 1
                     \/ Cardinality(Range(complete_z_list)) > 1
      z_source == sample["source_parameters"].z_source.num
  IN [p |-> [p0 EXCEPT !.self.sample = sample1, !.np_random = after],
      kwargs_model |->
        [lens_model_list |-> los.models \o sub.models \o main.models,
         lens_redshift_list |-> complete_z_list,
         lens_light_model_list |-> ll.models,
         point_source_model_list |-> ps.models,
         source_light_model_list |-> src.models,
         source_redshift_list |-> src.z,
         multi_plane |-> multi_plane,
         z_source |-> z_source,
         z_source_convention |-> z_source],
      kwargs_params |->
        [kwargs_lens |-> los.kwargs \o sub.kwargs \o main.kwargs,
         kwargs_lens_light |-> ll.kwargs,
         kwargs_ps |-> ps.kwargs,
         kwargs_source |-> src.kwargs]]

\* ConfigHandler.get_lenstronomy_models_kwargs
get_lenstronomy_models_kwargs(p, new_sample) ==
  ModelsOfSample(IF new_sample THEN draw_new_sample(p) ELSE p)

-----------------------------------------------------------------------------
(* The optical simulation engine (lenstronomy), as the handler calls it:    *)
(* deterministic functions of the model kwargs.                             *)

\* what the lens models add up to
RECURSIVE LensStrength(_)
LensStrength(kwargs_lens) ==
  IF kwargs_lens = <<>> THEN 0
  ELSE (IF "theta_E" \in DOMAIN Head(kwargs_lens)
        THEN Head(kwargs_lens).theta_E ELSE Head(kwargs_lens).index)
       + LensStrength(Tail(kwargs_lens))

\* point_source_model.image_position(kwargs_ps, kwargs_lens): the images of
\* the point source, between none and six of them
image_position(kwargs_ps, kwargs_lens) ==
  LET n == (LensStrength(kwargs_lens) + kwargs_ps[1].ra_source) % 7
  IN [x_image |-> [i \in 1 .. n |-> i + LensStrength(kwargs_lens)],
      y_image |-> [i \in 1 .. n |-> 2 * i - LensStrength(kwargs_lens)]]

\* lens_model.magnification(x, y, kwargs_lens): signed magnifications
magnification(x, y, kwargs_lens) ==
  [i \in 1 .. Len(x) |-> ((LensStrength(kwargs_lens) * i + i) % 7) - 3]

\* lens_model.arrival_time(x, y, kwargs_lens, kappa_ext)
arrival_time(x, y, kwargs_lens, kappa_ext) ==
  [i \in 1 .. Len(x) |-> 10 + 3 * i + LensStrength(kwargs_lens) + kappa_ext]

\* ddt(sample, cosmo): the time-delay distance
ddt(sample) == sample["source_parameters"].z_source.num
               - sample["main_deflector_parameters"].z_lens.num

\* image_model.image(...): a numpix x numpix array of positive fluxes
ImageModel_image(kwargs_params, numpix) ==
  [i \in 1 .. numpix |-> [j \in 1 .. numpix |->
     1 + ((LensStrength(kwargs_params.kwargs_lens)
           + kwargs_params.kwargs_source[1].image + i + 2 * j) % 3)]]

\* numpy.sum of a 2-D array
ImageSum(image) == SumSeq([i \in 1 .. Len(image) |-> SumSeq(image[i])])

\* total_flux of the source models: one unit of flux per pixel, unlensed
total_flux(kwargs_source, numpix) == numpix * numpix

\* lens_surface_brightness(kwargs_lens_light), summed
lens_light_total(kwargs_lens_light, numpix) ==
  IF kwargs_lens_light = <<>> THEN 0 ELSE numpix

\* single_band.noise_for_model(image): a noise realization drawn from
\* numpy's generator
noise_for_model(image, d) ==
  [i \in 1 .. Len(image) |-> [j \in 1 .. Len(image[i]) |-> (d + i + j) % 2]]

ImageAdd(a, b) ==
  [i \in 1 .. Len(a) |-> [j \in 1 .. Len(a[i]) |-> a[i][j] + b[i][j]]]

\* floor of the square root
ISqrt(x) == CHOOSE r \in 0 .. x : r * r <= x /\ x < (r + 1) * (r + 1)

\* numpy.sqrt(x) of a non-negative integer x: the number itself when x is a
\* perfect square, and otherwise the irrational root of x, kept exactly as
\* [sqrt |-> x]
Sqrt(x) == IF ISqrt(x) * ISqrt(x) = x THEN Num(ISqrt(x)) ELSE [sqrt |-> x]

\* numpy broadcasting of two 1-D shapes
Broadcastable(a, b) == a = b \/ a = 1 \/ b = 1
\* element i of a 1-D array broadcast against a longer one
Bcast(q, i) == IF Len(q) = 1 THEN q[1] ELSE q[i]

\* LensModelExtensions.caustic_area(kwargs_lens, {'compute_window': w})
caustic_area(kwargs_lens, compute_window) ==
  LensStrength(kwargs_lens) * LensStrength(kwargs_lens)

\* the first caustic of critical_curve_caustics(kwargs_lens, compute_window):
\* the ra and dec of its points
critical_curve_caustics(kwargs_lens, compute_window) ==
  [ra |-> <<LensStrength(kwargs_lens), 0 - LensStrength(kwargs_lens)>>,
   dec |-> <<0, Hundredths(compute_window)>>]

\* mass_2d_lens(r=1.5, sigma0, r_core, gamma) of the first lens model
mass_2d_lens(sigma0, r_core, gamma) == sigma0 * (r_core + gamma)

\* get_metadata's caustic area and distance to the caustic: mo is what
\* get_lenstronomy_models_kwargs(new_sample=False) returned
CausticOf(metadata, mo) ==
  LET sample == get_current_sample(mo.p)
      pixel_scale == sample["detector_parameters"].pixel_scale
      \* numpix * pixel_scale: an int times an int, or an int times a float
      compute_window == IF IsNum(pixel_scale)
                        THEN Num(mo.p.self.numpix * pixel_scale.num)
                        ELSE Float(IntTimesFloat(mo.p.self.numpix, pixel_scale.float))
      c == critical_curve_caustics(mo.kwargs_params.kwargs_lens, compute_window)
      ra_offset == [i \in 1 .. Len(c.ra) |->
                      mo.kwargs_params.kwargs_source[1].center_x - c.ra[i]]
      dec_offset == [i \in 1 .. Len(c.dec) |->
                       mo.kwargs_params.kwargs_source[1].center_y - c.dec[i]]
      sq == {ra_offset[i] * ra_offset[i] + dec_offset[i] * dec_offset[i] :
               i \in 1 .. Len(c.ra)}
      least == CHOOSE x \in sq : \A y \in sq : x <= y
  IN [metadata |->
        ("main_deflector_parameters_caustic_area" :>
           Num(caustic_area(mo.kwargs_params.kwargs_lens, compute_window)))
        @@ ("source_parameters_distance_to_caustic" :> Sqrt(least))
        @@ metadata,
      p |-> mo.p]

\* get_metadata's enclosed mass: mo is what
\* get_lenstronomy_models_kwargs(new_sample=False) returned
MassEnclosedOf(metadata, mo) ==
  [metadata |->
     ("main_deflector_parameters_M_encl_15e-1arcsec" :>
        Num(mass_2d_lens(mo.kwargs_params.kwargs_lens[1].sigma0,
                         mo.kwargs_params.kwargs_lens[1].r_core,
                         mo.kwargs_params.kwargs_lens[1].gamma)))
     @@ metadata,
   p |-> mo.p]

\* get_metadata from 'write caustic area if requested' on: f is what the
\* loop over the sample left
CausticKeys(f) ==
  IF f.p.self.compute_caustic_area
  THEN CausticOf(f.metadata, get_lenstronomy_models_kwargs(f.p, FALSE))
  ELSE f

\* get_metadata from 'if self.compute_mass_enclosed' on
MassEnclosedKeys(f) ==
  IF f.p.self.compute_mass_enclosed
  THEN MassEnclosedOf(f.metadata, get_lenstronomy_models_kwargs(f.p, FALSE))
  ELSE f

\* ConfigHandler.get_metadata: the metadata, and the process afterwards
get_metadata(p) == MassEnclosedKeys(CausticKeys(FlattenSample(p)))

-----------------------------------------------------------------------------
(* Criteria evaluator and point-source metadata *)

pfix == "point_source_parameters_"

\* the slot loop leaving out the last image found
SlotEntries_LastLeftOut(i, num_images, x_image, y_image, magnifications, hasPert, mag_pert, wantsTd, td) ==
  LET idx == ToString(i)
  IN IF i + 1 < num_images
     THEN (pfix \o "x_image_" \o idx :> Num(x_image[i + 1]))
          @@ (pfix \o "y_image_" \o idx :> Num(y_image[i + 1]))
          @@ (pfix \o "magnification_" \o idx :> Num(magnifications[i + 1]))
     ELSE (pfix \o "x_image_" \o idx :> NaN)
          @@ (pfix \o "y_image_" \o idx :> NaN)
          @@ (pfix \o "magnification_" \o idx :> NaN)

\* the slot loop writing only the slots of the images found
SlotEntries_OmitUnused(i, num_images, x_image, y_image, magnifications, hasPert, mag_pert, wantsTd, td) ==
  LET idx == ToString(i)
  IN IF i < num_images
     THEN (pfix \o "x_image_" \o idx :> Num(x_image[i + 1]))
          @@ (pfix \o "y_image_" \o idx :> Num(y_image[i + 1]))
          @@ (pfix \o "magnification_" \o idx :> Num(magnifications[i + 1]))
     ELSE EmptyDict

\* the slot keys and values written for slot i (0-based) of 0..3
SlotEntries(i, num_images, x_image, y_image, magnifications, hasPert, mag_pert, wantsTd, td) ==
  LET idx == ToString(i)
      img == IF i < num_images
             THEN (pfix \o "x_image_" \o idx :> Num(x_image[i + 1]))
                  @@ (pfix \o "y_image_" \o idx :> Num(y_image[i + 1]))
                  @@ (pfix \o "magnification_" \o idx :> Num(magnifications[i + 1]))
             ELSE (pfix \o "x_image_" \o idx :> NaN)
                  @@ (pfix \o "y_image_" \o idx :> NaN)
                  @@ (pfix \o "magnification_" \o idx :> NaN)
      pert == IF ~hasPert THEN EmptyDict
              ELSE IF i < num_images
                   THEN (pfix \o "mag_pert_" \o idx :> Num(mag_pert[i + 1]))
                   ELSE (pfix \o "mag_pert_" \o idx :> NaN)
      tdel == IF ~wantsTd THEN EmptyDict
              ELSE IF i < Len(td)
                   THEN (pfix \o "time_delay_" \o idx :> Num(td[i + 1]))
                   ELSE (pfix \o "time_delay_" \o idx :> NaN)
  IN img @@ pert @@ tdel

\* the image-count criteria with quads_only read as doubles_quads_only
ImageCountRejected_QuadsAsDoubles(h, num_images) ==
  \/ num_images > 5
  \/ num_images < 2
  \/ h.doubles_quads_only /\ num_images # 2 /\ num_images # 4
  \/ h.quads_only /\ num_images # 2 /\ num_images # 4

\* the image-count criteria: more than five images, fewer than two, or a
\* count that doubles_quads_only / quads_only does not allow
ImageCountRejected(h, num_images) ==
  \/ num_images > 5
  \/ num_images < 2
  \/ h.doubles_quads_only /\ num_images # 2 /\ num_images # 4
  \/ h.quads_only /\ num_images # 4

\* magnifications * mag_pert[0:len(magnifications)] when mag_pert is defined;
\* ok is FALSE when numpy cannot broadcast the two shapes (a ValueError)
PerturbedMagnifications(psp, raw) ==
  LET hasPert == "mag_pert" \in DOMAIN psp
      mag_pert == IF hasPert THEN psp.mag_pert.list ELSE <<>>
      pert == SubSeq(mag_pert, 1, Min(Len(raw), Len(mag_pert)))
  IN IF ~hasPert THEN [ok |-> TRUE, value |-> raw]
     ELSE IF ~Broadcastable(Len(raw), Len(pert)) THEN [ok |-> FALSE, value |-> <<>>]
     ELSE [ok |-> TRUE,
           value |-> [i \in 1 .. Max(Len(raw), Len(pert)) |->
                        Bcast(raw, i) * Bcast(pert, i)]]

\* the point-source magnification cut:
\* numpy.mean(numpy.abs(magnifications)) < ps_magnification_cut
BelowPsCut(cut, magnifications) ==
  /\ cut # None
  /\ SumSeq([i \in 1 .. Len(magnifications) |-> Abs(magnifications[i])])
       < cut.num * Len(magnifications)

\* the time delays with a missing kappa_ext read as zero convergence
TimeDelays_DefaultKappa(psp, x_image, y_image, kwargs_lens) ==
  LET kappa == IF "kappa_ext" \in DOMAIN psp THEN psp.kappa_ext.num ELSE 0
      td0 == arrival_time(x_image, y_image, kwargs_lens, kappa)
  IN [exc |-> "", td |-> [i \in 1 .. Len(td0) |-> td0[i] - td0[1]]]

\* the time delays: exc is "ValueError" when kappa_ext is missing or the
\* errors cannot be broadcast onto the arrival times
TimeDelays(psp, x_image, y_image, kwargs_lens) ==
  LET hasKappa == "kappa_ext" \in DOMAIN psp
      td0 == arrival_time(x_image, y_image, kwargs_lens, psp.kappa_ext.num)
      hasErr == "time_delay_errors" \in DOMAIN psp
      \* errors[0:len(td)-1]
      errors == SubSeq(psp.time_delay_errors.list, 1,
                       Min(Len(td0) - 1, Len(psp.time_delay_errors.list)))
      td1 == IF hasErr
             THEN [i \in 1 .. Max(Len(td0), Len(errors)) |->
                     Bcast(td0, i) + Bcast(errors, i)]
             ELSE td0
  IN IF ~hasKappa THEN [exc |-> "ValueError", td |-> <<>>]
     ELSE IF hasErr /\ ~Broadcastable(Len(td0), Len(errors))
       THEN [exc |-> "ValueError", td |-> <<>>]
     \* td -= td[0]
     ELSE [exc |-> "", td |-> [i \in 1 .. Len(td1) |-> td1[i] - td1[1]]]

\* what _calculate_ps_metadata did: the exception raised ("" for none), the
\* metadata as modified in place, the value returned, and the images and
\* magnifications it worked on (None when not computed)
PsOutcome(e, md, r, x_image, y_image, mags) ==
  [exc |-> e, metadata |-> md, ret |-> r, num_images |-> Len(x_image),
   x_image |-> x_image, y_image |-> y_image, magnifications |-> mags]

\* _calculate_ps_metadata from the time delays on.  The metadata is modified
\* in place: when mag_pert has fewer entries than the slots of the images
\* found, the slots before the missing entry are written in full and the
\* image of the slot of the missing entry is written before mag_pert[i]
\* raises the IndexError
PsTimeDelays(psp, sample, md1, x_image, y_image, magnifications, td) ==
  LET wantsTd == psp.compute_time_delays.bool
      hasPert == "mag_pert" \in DOMAIN psp
      mag_pert == IF hasPert THEN psp.mag_pert.list ELSE <<>>
      md2 == IF wantsTd THEN (pfix \o "ddt" :> Num(ddt(sample))) @@ md1 ELSE md1
      slot(i) == SlotEntries(i, Len(x_image), x_image, y_image, magnifications,
                             hasPert, mag_pert, wantsTd, td.td)
      \* slot i as far as its magnification
      image(i) == SlotEntries(i, Len(x_image), x_image, y_image, magnifications,
                              FALSE, <<>>, FALSE, <<>>)
      before(k) == IF k = 0 THEN md2
                   ELSE IF k = 1 THEN slot(0) @@ md2
                   ELSE IF k = 2 THEN slot(1) @@ slot(0) @@ md2
                   ELSE slot(2) @@ slot(1) @@ slot(0) @@ md2
  IN IF wantsTd /\ td.exc # ""
       THEN PsOutcome(td.exc, md1, -1, x_image, y_image, List(magnifications))
     ELSE IF hasPert /\ Len(mag_pert) < Min(Len(x_image), 4)
       THEN PsOutcome("IndexError", image(Len(mag_pert)) @@ before(Len(mag_pert)),
                      -1, x_image, y_image, List(magnifications))
     ELSE PsOutcome("", slot(3) @@ before(3), 0,
                    x_image, y_image, List(magnifications))

\* _calculate_ps_metadata from the magnifications on
PsMagnifications(h, psp, sample, md1, x_image, y_image, kwargs_lens, mags) ==
  IF ~mags.ok THEN PsOutcome("ValueError", md1, -1, x_image, y_image, None)
  ELSE IF BelowPsCut(h.ps_magnification_cut, mags.value)
    THEN PsOutcome("FailedCriteriaError", md1, -1, x_image, y_image, List(mags.value))
  ELSE PsTimeDelays(psp, sample, md1, x_image, y_image, mags.value,
         IF psp.compute_time_delays.bool
         THEN TimeDelays(psp, x_image, y_image, kwargs_lens)
         ELSE [exc |-> "", td |-> <<>>])

\* _calculate_ps_metadata once the image positions are known
PsImages(p, metadata, kwargs_params, x_image, y_image) ==
  LET psp == get_current_sample(p)["point_source_parameters"]
      x_diff == kwargs_params.kwargs_ps[1].ra_source
                - kwargs_params.kwargs_lens[1].center_x
      y_diff == kwargs_params.kwargs_ps[1].dec_source
                - kwargs_params.kwargs_lens[1].center_y
      md1 == (pfix \o "num_images" :> Num(Len(x_image)))
             @@ (pfix \o "lens_ps_offset" :>
                   Sqrt(x_diff * x_diff + y_diff * y_diff))
             @@ metadata
  IN IF ImageCountRejected(p.self, Len(x_image))
       THEN PsOutcome("FailedCriteriaError", md1, -1, x_image, y_image, None)
     ELSE PsMagnifications(p.self, psp, get_current_sample(p), md1, x_image, y_image,
            kwargs_params.kwargs_lens,
            PerturbedMagnifications(psp,
              magnification(x_image, y_image, kwargs_params.kwargs_lens)))

\* ConfigHandler._calculate_ps_metadata
_calculate_ps_metadata(p, metadata, kwargs_params) ==
  PsImages(p, metadata, kwargs_params,
    image_position(kwargs_params.kwargs_ps, kwargs_params.kwargs_lens).x_image,
    image_position(kwargs_params.kwargs_ps, kwargs_params.kwargs_lens).y_image)

-----------------------------------------------------------------------------
(* Rendering *)

Array(image) == [arr |-> image]
Dict(d) == [dict |-> d]

\* a render that raised: exc names the exception, p is the process as the
\* render left it, ps what _calculate_ps_metadata did (None when not called)
Raised(e, p, ps) ==
  [exc |-> e, p |-> p, image |-> None, metadata |-> None, ps |-> ps]
\* a render that returned the pair (image, metadata)
Returned(p, image, metadata, ps) ==
  [exc |-> "", p |-> p, image |-> image, metadata |-> metadata, ps |-> ps]

\* what is kept of _calculate_ps_metadata's outcome
PsSeen(ps) ==
  [exc |-> ps.exc, num_images |-> ps.num_images, x_image |-> ps.x_image,
   y_image |-> ps.y_image, magnifications |-> ps.magnifications]

\* _draw_image_standard from the point-source metadata on: ps is what
\* _calculate_ps_metadata did
StandardPointSource(p, image, ps) ==
  IF ps.exc # "" THEN Raised(ps.exc, p, PsSeen(ps))
  ELSE IF ps.ret = -1 THEN Returned(p, None, None, PsSeen(ps))
  ELSE Returned(p, Array(image), Dict(ps.metadata), PsSeen(ps))

\* _draw_image_standard from get_metadata on: m is what get_metadata returned
StandardMetadata(image, kwargs_params, m) ==
  IF m.p.self.point_source_class = None
  THEN Returned(m.p, Array(image), Dict(m.metadata), None)
  ELSE StandardPointSource(m.p, image,
         _calculate_ps_metadata(m.p, m.metadata, kwargs_params))

\* _draw_image_standard from the noise on
StandardNoise(p, kwargs_params, image0, add_noise) ==
  StandardMetadata(
    IF add_noise THEN ImageAdd(image0, noise_for_model(image0, p.np_random))
    ELSE image0,
    kwargs_params,
    get_metadata(IF add_noise THEN Randint(p).p ELSE p))

\* _draw_image_standard from the rendered image on: the magnification cut
StandardImage(p, kwargs_params, image0, add_noise) ==
  LET numpix == p.self.numpix
      mag_cut == p.self.mag_cut
      \* (sum(image) - lens_light_total) / source_light_total < mag_cut
      failsCut == ImageSum(image0) - lens_light_total(kwargs_params.kwargs_lens_light, numpix)
                  < mag_cut.num * total_flux(kwargs_params.kwargs_source, numpix)
  IN IF mag_cut # None /\ failsCut THEN Raised("FailedCriteriaError", p, None)
     ELSE StandardNoise(p, kwargs_params, image0, add_noise)

\* _draw_image_standard once the models are drawn: g is what
\* get_lenstronomy_models_kwargs returned
StandardRender(g, add_noise, apply_psf) ==
  StandardImage(g.p, g.kwargs_params,
                ImageModel_image(g.kwargs_params, g.p.self.numpix), add_noise)

\* ConfigHandler._draw_image_standard
_draw_image_standard(p, add_noise, apply_psf) ==
  StandardRender(get_lenstronomy_models_kwargs(p, FALSE), add_noise, apply_psf)

\* hubblify(image_ss, ...): the high-resolution image resampled to the
\* output pixel scale, with the noise model applied
hubblify(image_ss, supersample_pixel_scale, output_pixel_scale, add_noise, d) ==
  LET n_ss == Len(image_ss)
      n_out == (n_ss * Hundredths(supersample_pixel_scale))
                 \div Hundredths(output_pixel_scale)
      at(i) == 1 + ((i - 1) * n_ss) \div n_out
  IN [i \in 1 .. n_out |-> [j \in 1 .. n_out |->
        image_ss[at(i)][at(j)] + (IF add_noise THEN (d + i + j) % 2 ELSE 0)]]

\* kwargs_numerics[key] = max(1, int(kwargs_numerics[key] / ss_scaling)) when
\* the key is present; the quotient is a float
ScaleNumerics(numerics, key, ss_scaling) ==
  IF key \in DOMAIN numerics
  THEN [numerics EXCEPT
          ![key] = Num(Max(1, Trunc(FloatDiv(ToFloat(@), ss_scaling))))]
  ELSE numerics

\* assignment to the numerics dict the handler holds: while that dict is
\* still the configuration module's own, the module sees the change too
SetNumerics(p, numerics) ==
  [p EXCEPT !.self.kwargs_numerics = numerics,
            !.self.config_module.kwargs_numerics =
               IF p.self.numerics_is_module THEN numerics ELSE @]

\* the restore that leaves the supersampled pixel count in place
RestoreAll_KeepNumpix(p, sample_copy, kwargs_numerics_copy, numpix_copy) ==
  [p EXCEPT !.self.sample = sample_copy,
            !.self.kwargs_numerics = kwargs_numerics_copy,
            !.self.numerics_is_module = FALSE]

\* self.sample, self.kwargs_numerics (and numpix) rebound to the copies
RestoreAll(p, sample_copy, kwargs_numerics_copy, numpix_copy) ==
  [p EXCEPT !.self.sample = sample_copy,
            !.self.kwargs_numerics = kwargs_numerics_copy,
            !.self.numerics_is_module = FALSE,
            !.self.numpix = numpix_copy]

\* one numerics adjustment for drizzle: the warning behind its filter, then
\* the factor scaled down
AdjustNumerics(p, key, flag, kind, ss_scaling) ==
  LET q == IF key \in DOMAIN p.self.kwargs_numerics /\ p[flag]
           THEN [Warn(p, kind) EXCEPT ![flag] = FALSE]
           ELSE p
  IN SetNumerics(q, ScaleNumerics(q.self.kwargs_numerics, key, ss_scaling))

\* _draw_image_drizzle up to the high-resolution render: numpix scaled up,
\* the detector pixel scale overridden, the numerics scaled down
DrizzleOverride(p, supersample_pixel_scale, ss_scaling) ==
  AdjustNumerics(
    AdjustNumerics(
      \* int(numpix * ss_scaling): the product is a float
      [p EXCEPT !.self.numpix = Trunc(IntTimesFloat(@, ss_scaling)),
                !.self.sample["detector_parameters"].pixel_scale =
                   supersample_pixel_scale],
      "supersampling_factor", "KWARGSNUMERICWARNING1", "numerics1", ss_scaling),
    "point_source_supersampling_factor", "KWARGSNUMERICWARNING2", "numerics2",
    ss_scaling)

\* the return of the high-resolution metadata as it is
DrizzleReturn_NoUpdate(image, hi, m) ==
  Returned(m.p, Array(image), hi.metadata, hi.ps)

\* _draw_image_drizzle's last lines: the copies restored, the metadata of
\* the restored sample merged over the high-resolution metadata
DrizzleReturn(image, hi, m) ==
  Returned(m.p, Array(image), Dict(m.metadata @@ hi.metadata.dict), hi.ps)

\* _draw_image_drizzle from the bypass of lenstronomy's supersampling on;
\* p7 is the process after the psf_supersample_factor checks
DrizzleResample(p7, c, hi, psf_supersample_factor) ==
  LET p8 == SetNumerics(p7,
              ("point_source_supersampling_factor" :> Num(1))
              @@ ("supersampling_factor" :> Num(1))
              @@ ("supersampling_convolution" :> Bool(FALSE))
              @@ p7.self.kwargs_numerics)
      \* pixel_scale /= psf_supersample_factor: the quotient is a float
      p9 == [p8 EXCEPT !.self.sample["psf_parameters"] =
                          ("point_source_supersampling_factor" :> Num(1)) @@ @,
                       !.self.sample["detector_parameters"].pixel_scale =
                          Float(FloatDiv(ToFloat(@), ToFloat(psf_supersample_factor)))]
      \* the noise model draws from numpy's generator inside hubblify
      after == IF p7.self.add_noise THEN RngNext(p7.np_random) ELSE p7.np_random
      image == hubblify(hi.image.arr, c.supersample_pixel_scale, c.output_pixel_scale,
                        p7.self.add_noise, p7.np_random)
  IN DrizzleReturn(image, hi,
       get_metadata([p9 EXCEPT !.np_random = after,
                               !.self.sample = c.sample_copy,
                               !.self.kwargs_numerics = c.kwargs_numerics_copy,
                               !.self.numerics_is_module = FALSE]))

\* _draw_image_drizzle after the high-resolution render returned: p6 is the
\* process with pixel scale and numpix put back
DrizzleChecks(p6, c, hi) ==
  LET dz == p6.self.sample["drizzle_parameters"]
      hasFactor == "psf_supersample_factor" \in DOMAIN dz
      p7 == IF hasFactor THEN p6 ELSE Warn(p6, "psf_factor")
      psf_supersample_factor == IF hasFactor THEN dz.psf_supersample_factor ELSE Num(1)
      psf == p6.self.sample["psf_parameters"]
  IN \* psf_supersample_factor > ss_scaling: an int against a float
     IF FloatLess(c.ss_scaling, ToFloat(psf_supersample_factor))
       THEN Raised("ValueError", p7, hi.ps)
     ELSE IF psf.psf_type = Str("PIXEL")
             /\ ("point_source_supersampling_factor" \notin DOMAIN psf
                 \/ ToFloat(psf.point_source_supersampling_factor)
                      # ToFloat(psf_supersample_factor))
       THEN Raised("ValueError", p7, hi.ps)
     ELSE DrizzleResample(p7, c, hi, psf_supersample_factor)

\* _draw_image_drizzle from the try block on: hi is what the high-resolution
\* _draw_image_standard did, c the copies and scales taken at the start
DrizzleAfterRender(c, hi) ==
  IF hi.exc = "FailedCriteriaError"
    THEN Raised("FailedCriteriaError",
                RestoreAll(hi.p, c.sample_copy, c.kwargs_numerics_copy, c.numpix_copy),
                hi.ps)
  ELSE IF hi.exc # "" THEN Raised(hi.exc, hi.p, hi.ps)
  ELSE DrizzleChecks(
         [hi.p EXCEPT !.self.sample["detector_parameters"].pixel_scale =
                         c.detector_pixel_scale,
                      !.self.numpix = c.numpix_copy],
         c, hi)

\* the copies and the pixel scales _draw_image_drizzle takes at its start,
\* and ss_scaling = detector_pixel_scale / supersample_pixel_scale, a float
DrizzleCopies(p) ==
  [sample_copy |-> p.self.sample,
   kwargs_numerics_copy |-> p.self.kwargs_numerics,
   numpix_copy |-> p.self.numpix,
   supersample_pixel_scale |->
     p.self.sample["drizzle_parameters"].supersample_pixel_scale,
   output_pixel_scale |->
     p.self.sample["drizzle_parameters"].output_pixel_scale,
   detector_pixel_scale |->
     p.self.sample["detector_parameters"].pixel_scale,
   ss_scaling |->
     FloatDiv(ToFloat(p.self.sample["detector_parameters"].pixel_scale),
              ToFloat(p.self.sample["drizzle_parameters"].supersample_pixel_scale))]

\* _draw_image_drizzle from the copies on
DrizzleRender(p, c) ==
  DrizzleAfterRender(
    c,
    _draw_image_standard(
      DrizzleOverride(p, c.supersample_pixel_scale, c.ss_scaling), FALSE, FALSE))

\* ConfigHandler._draw_image_drizzle
_draw_image_drizzle(p) == DrizzleRender(p, DrizzleCopies(p))

-----------------------------------------------------------------------------
(* The facade *)

\* util.make_grid(numPix, deltapix): the coordinate of the pixels of index k
\* (column k for x_grid, row k for y_grid), without its sign.  The grid is
\* np.arange(numPix) * deltapix, shifted by deltapix * (numPix - 1) / 2 to
\* have the centre at 0: each product and the difference are rounded
make_grid(k, numPix, deltapix) ==
  LET s == IntTimesFloat(numPix - 1, deltapix)
      shift == IF s.m = <<>> THEN s ELSE [s EXCEPT !.e = @ - 1]
  IN FloatAbsDiff(IntTimesFloat(k, deltapix), shift)

\* x_grid**2 + y_grid**2 of pixel (i, j) (0-based), a double
Radius2(i, j, numPix, deltapix) ==
  LET x == make_grid(j, numPix, deltapix)
      y == make_grid(i, numPix, deltapix)
  IN FloatAdd(FloatMul(x, x), FloatMul(y, y))

\* r < mask_radius in place of r <= mask_radius
InMask_Strict(i, j, numPix, deltapix, mask_radius) ==
  SqrtLess(Radius2(i, j, numPix, ToFloat(deltapix)), ToFloat(mask_radius))

\* r <= mask_radius for pixel (i, j), r = np.sqrt(x_grid**2 + y_grid**2):
\* deltapix and mask_radius are the doubles the sample and the module hold
InMask(i, j, numPix, deltapix, mask_radius) ==
  SqrtAtMost(Radius2(i, j, numPix, ToFloat(deltapix)), ToFloat(mask_radius))

\* image[r <= mask_radius] = 0
ApplyMask(image, deltapix, mask_radius) ==
  [i \in 1 .. Len(image) |-> [j \in 1 .. Len(image[i]) |->
     IF InMask(i - 1, j - 1, Len(image), deltapix, mask_radius)
     THEN 0 ELSE image[i][j]]]

\* what is recorded of a draw_image call: how it ended (returned, or the
\* exception exc that left it), the pair returned, the seed its reseed()
\* installed, the handler as _draw_image_drizzle found it (entry), the
\* exception that left the render (raised), what _calculate_ps_metadata did
\* (ps) and the image before masking
NoCall ==
  [op |-> "__init__", others |-> 0,
   calls |-> 0, new_sample |-> FALSE, returned |-> FALSE, exc |-> "",
   image |-> None, metadata |-> None, seed |-> <<>>, entry |-> None,
   raised |-> "", ps |-> None, unmasked |-> None]

\* the record of a call that reseeded with seed and rendered from p1
CallRecord(calls, new_sample, seed, p1) ==
  [op |-> "draw_image", others |-> p1.ret.others,
   calls |-> calls, new_sample |-> new_sample,
   returned |-> FALSE, exc |-> "", image |-> None, metadata |-> None,
   seed |-> seed,
   entry |-> IF p1.self.do_drizzle
             THEN [sample |-> p1.self.sample,
                   kwargs_numerics |-> p1.self.kwargs_numerics,
                   numpix |-> p1.self.numpix]
             ELSE None,
   raised |-> "", ps |-> None, unmasked |-> None]

\* draw_image stamping the seed into a metadata record on a rejection too
AfterRender_StampOnRejection(call, seed, r) ==
  LET seen == [call EXCEPT !.raised = r.exc, !.ps = r.ps]
  IN IF r.exc = "FailedCriteriaError"
       THEN [r.p EXCEPT !.ret = [seen EXCEPT !.returned = TRUE,
                                             !.metadata = Dict("seed" :> Tuple(seed))]]
     ELSE IF r.exc # ""
       THEN [r.p EXCEPT !.ret = [seen EXCEPT !.exc = r.exc]]
     ELSE [r.p EXCEPT !.ret = [seen EXCEPT !.returned = TRUE, !.image = r.image,
                                           !.metadata = r.metadata,
                                           !.unmasked = r.image]]

\* draw_image with a bare except: every exception becomes (None, None)
AfterRender_CatchAll(call, seed, r) ==
  LET seen == [call EXCEPT !.raised = r.exc, !.ps = r.ps]
  IN IF r.exc # ""
       THEN [r.p EXCEPT !.ret = [seen EXCEPT !.returned = TRUE]]
     ELSE [r.p EXCEPT !.ret = [seen EXCEPT !.returned = TRUE, !.image = r.image,
                                           !.metadata = r.metadata,
                                           !.unmasked = r.image]]

\* draw_image from the end of the try block on: r is what the render did
AfterRender(call, seed, r) ==
  LET m == r.p.self.config_module
      kwargs_detector == get_current_sample(r.p)["detector_parameters"]
      image == IF "mask_radius" \in DOMAIN m
               THEN Array(ApplyMask(r.image.arr, kwargs_detector.pixel_scale,
                                    m.mask_radius))
               ELSE r.image
      metadata == Dict(("seed" :> Tuple(seed)) @@ r.metadata.dict)
      seen == [call EXCEPT !.raised = r.exc, !.ps = r.ps]
  IN IF r.exc = "FailedCriteriaError"
       \* return None, None
       THEN [r.p EXCEPT !.ret = [seen EXCEPT !.returned = TRUE]]
     ELSE IF r.exc # ""
       THEN [r.p EXCEPT !.ret = [seen EXCEPT !.exc = r.exc]]
     ELSE [r.p EXCEPT !.ret = [seen EXCEPT !.returned = TRUE, !.image = image,
                                           !.metadata = metadata,
                                           !.unmasked = r.image]]

\* draw_image from the render on: p1 is the process after reseed() and the
\* new sample
Render(call, seed, p1) ==
  AfterRender(call, seed,
    IF p1.self.do_drizzle THEN _draw_image_drizzle(p1)
    ELSE _draw_image_standard(p1, p1.self.add_noise, TRUE))

\* draw_image after reseed(): rs is what reseed() returned
AfterReseed(calls, new_sample, rs) ==
  LET p1 == IF new_sample THEN draw_new_sample(rs.p) ELSE rs.p
  IN Render(CallRecord(calls, new_sample, rs.seed, p1), rs.seed, p1)

\* ConfigHandler.draw_image
draw_image(p, new_sample) ==
  AfterReseed(p.ret.calls + 1, new_sample, reseed(p))

-----------------------------------------------------------------------------
(* The specification *)

\* a process that has just imported the module, its numpy generator in
\* state r
FreshProcess(r) ==
  [self |-> None, np_random |-> r, numba_random |-> r,
   SERIALIZATIONWARNING |-> TRUE, KWARGSNUMERICWARNING1 |-> FALSE,
   KWARGSNUMERICWARNING2 |-> FALSE, warned |-> NoWarnings, ret |-> NoCall]

\* the variables hold the process state q
Holds(q) ==
  /\ self = q.self
  /\ np_random = q.np_random
  /\ numba_random = q.numba_random
  /\ SERIALIZATIONWARNING = q.SERIALIZATIONWARNING
  /\ KWARGSNUMERICWARNING1 = q.KWARGSNUMERICWARNING1
  /\ KWARGSNUMERICWARNING2 = q.KWARGSNUMERICWARNING2
  /\ warned = q.warned
  /\ ret = q.ret

Becomes(q) ==
  /\ self' = q.self
  /\ np_random' = q.np_random
  /\ numba_random' = q.numba_random
  /\ SERIALIZATIONWARNING' = q.SERIALIZATIONWARNING
  /\ KWARGSNUMERICWARNING1' = q.KWARGSNUMERICWARNING1
  /\ KWARGSNUMERICWARNING2' = q.KWARGSNUMERICWARNING2
  /\ warned' = q.warned
  /\ ret' = q.ret

\* a handler is built from configuration module m in each of the two
\* processes, whose generators are in different states
Init ==
  \E m \in ConfigModules, r \in RngInits : \E rt \in RngInits \ {r} :
    /\ Holds(ConfigHandler_init(m, FreshProcess(r)))
    /\ twin = ConfigHandler_init(m, FreshProcess(rt))

\* the caller may make another call
CallsLeft == ret.calls + ret.others < MaxCalls

\* the process after the caller's call of the public method op other than
\* draw_image: the outcome of the last draw_image call is kept
AfterCall(p, op) == [p EXCEPT !.ret.op = op, !.ret.others = @ + 1]

\* the caller calls draw_image(new_sample) on the handler of each process
DrawImage(new_sample) ==
  /\ CallsLeft
  /\ Becomes(draw_image(Proc, new_sample))
  /\ twin' = draw_image(twin, new_sample)

\* the caller calls reseed()
Reseed ==
  /\ CallsLeft
  /\ Becomes(AfterCall(reseed(Proc).p, "reseed"))
  /\ twin' = AfterCall(reseed(twin).p, "reseed")

\* the caller calls draw_new_sample()
DrawNewSample ==
  /\ CallsLeft
  /\ Becomes(AfterCall(draw_new_sample(Proc), "draw_new_sample"))
  /\ twin' = AfterCall(draw_new_sample(twin), "draw_new_sample")

\* the caller calls get_lenstronomy_models_kwargs(new_sample)
GetLenstronomyModelsKwargs(new_sample) ==
  /\ CallsLeft
  /\ Becomes(AfterCall(get_lenstronomy_models_kwargs(Proc, new_sample).p,
                       "get_lenstronomy_models_kwargs"))
  /\ twin' = AfterCall(get_lenstronomy_models_kwargs(twin, new_sample).p,
                       "get_lenstronomy_models_kwargs")

\* the caller calls get_metadata()
GetMetadata ==
  /\ CallsLeft
  /\ Becomes(AfterCall(get_metadata(Proc).p, "get_metadata"))
  /\ twin' = AfterCall(get_metadata(twin).p, "get_metadata")

\* a call of one of the public methods of the handler
PublicCall ==
  \/ \E new_sample \in BOOLEAN : DrawImage(new_sample)
  \/ Reseed
  \/ DrawNewSample
  \/ \E new_sample \in BOOLEAN : GetLenstronomyModelsKwargs(new_sample)
  \/ GetMetadata

Next == PublicCall

Spec == Init /\ [][Next]_vars

\* a process that builds several handlers, one after the other, and calls
\* the latest: the first handler is built from module m
ProcessInit ==
  \E m \in ProcessModules, r \in RngInits :
    /\ Holds(ConfigHandler_init(m, FreshProcess(r)))
    /\ twin = ConfigHandler_init(m, FreshProcess(r))

\* ConfigHandler(config_path) once more in the same process: the module
\* flags, the warnings given and the generators are the process's
NewHandler(m) ==
  /\ Becomes([ConfigHandler_init(m, Proc) EXCEPT !.ret.op = "__init__"])
  /\ twin' = [ConfigHandler_init(m, twin) EXCEPT !.ret.op = "__init__"]

ProcessNext ==
  \/ PublicCall
  \/ \E m \in {self.config_module, LaterModule} : NewHandler(m)

ProcessSpec == ProcessInit /\ [][ProcessNext]_vars


-----------------------------------------------------------------------------
(* Properties *)

\* the call the caller made last was a draw_image call
Called == ret.calls > 0 /\ ret.op = "draw_image"
Sentinel == ret.returned /\ ret.image = None /\ ret.metadata = None
HasPointSource == self.point_source_class # None

\* C1: every draw_image call that returns, returns (None, None) or an image
\* array together with a metadata dict: metadata is None iff image is None.
C1_PairIsSentinelOrResult ==
  (Called /\ ret.returned) =>
    /\ (ret.image = None) <=> (ret.metadata = None)
    /\ ret.image # None => DOMAIN ret.image = {"arr"} /\ DOMAIN ret.metadata = {"dict"}

\* a drizzle render rejected on its second call gave the sentinel pair
C1_Witness ==
  /\ ret.calls = 2 /\ self.do_drizzle
  /\ ret.raised = "FailedCriteriaError" /\ Sentinel

\* C2: a FailedCriteriaError that leaves the render becomes the return value
\* (None, None) and never leaves draw_image; any other exception leaves
\* draw_image as it is and no pair is returned.
C2_OnlyRejectionBecomesSentinel ==
  Called =>
    /\ ret.raised = "FailedCriteriaError" => Sentinel /\ ret.exc = ""
    /\ ret.raised \notin {"", "FailedCriteriaError"} =>
         ~ret.returned /\ ret.exc = ret.raised
    /\ ret.exc # "FailedCriteriaError"
    /\ Sentinel => ret.raised = "FailedCriteriaError"

\* the ValueError for a psf_supersample_factor above the supersampling ratio
\* left draw_image
C2_Witness ==
  /\ ret.exc = "ValueError" /\ ~ret.returned /\ self.do_drizzle
  /\ ret.ps = None

\* C3: two handlers built from the same configuration and base seed and
\* given the same draw_image calls (and no other call) return the same image
\* and metadata on every call, whatever state the random generators were in
\* at construction.
C3_SameSeedSameResult ==
  (Called /\ ret.others = 0 /\ self.base_seed = twin.self.base_seed) =>
    /\ ret.returned = twin.ret.returned
    /\ ret.exc = twin.ret.exc
    /\ ret.image = twin.ret.image
    /\ ret.metadata = twin.ret.metadata

\* C4 as stated: after a drizzle render that succeeded or was rejected, the
\* detector pixel scale and the whole sample, kwargs_numerics and numpix
\* equal what _draw_image_drizzle found.
C4_DrizzleRoundTrip ==
  (Called /\ self.do_drizzle /\ ret.returned) =>
    /\ self.sample = ret.entry.sample
    /\ self.sample["detector_parameters"].pixel_scale
         = ret.entry.sample["detector_parameters"].pixel_scale
    /\ self.kwargs_numerics = ret.entry.kwargs_numerics
    /\ self.numpix = ret.entry.numpix

\* the parameters of component c that the models drawn from a catalog source
\* write back into the sample
BackWritten(c) == IF c = "source_parameters" THEN {"catalog_i", "phi"} ELSE {}

\* the sample is the sample before, but for the parameters written back
SameButBackWrites(sample, before) ==
  /\ DOMAIN sample = DOMAIN before
  /\ \A c \in DOMAIN before :
       /\ DOMAIN before[c] \subseteq DOMAIN sample[c]
       /\ DOMAIN sample[c] \ DOMAIN before[c] \subseteq BackWritten(c)
       /\ \A k \in DOMAIN before[c] \ BackWritten(c) : sample[c][k] = before[c][k]

\* C4 (amended): after a drizzle render that succeeded or was rejected, the
\* detector pixel scale, kwargs_numerics and numpix equal what
\* _draw_image_drizzle found, and so does every parameter of the sample but
\* catalog_i and phi of source_parameters: the whole sample is the one found
\* unless the render succeeded for a catalog source with the caustic area or
\* the enclosed mass asked for, when get_metadata, called after the restore,
\* has the models drawn and catalog_i and phi written into the sample.
C4_RoundTripButBackWrites ==
  (Called /\ self.do_drizzle /\ ret.returned) =>
    /\ SameButBackWrites(self.sample, ret.entry.sample)
    /\ self.sample["detector_parameters"].pixel_scale
         = ret.entry.sample["detector_parameters"].pixel_scale
    /\ self.kwargs_numerics = ret.entry.kwargs_numerics
    /\ self.numpix = ret.entry.numpix
    /\ self.sample # ret.entry.sample =>
         /\ ret.image # None
         /\ self.source_class = Str("GalaxyCatalog")
         /\ self.compute_caustic_area \/ self.compute_mass_enclosed
    /\ (/\ ret.image # None
        /\ self.source_class = Str("GalaxyCatalog")
        /\ self.compute_caustic_area \/ self.compute_mass_enclosed) =>
         {"catalog_i", "phi"} \subseteq DOMAIN self.sample["source_parameters"]

\* a drizzle render succeeded and left catalog_i in a sample that had none,
\* the pixel scale and numpix being the detector's again
C4_Witness ==
  /\ Called /\ self.do_drizzle /\ ret.image # None
  /\ "catalog_i" \in DOMAIN self.sample["source_parameters"]
  /\ "catalog_i" \notin DOMAIN ret.entry.sample["source_parameters"]
  /\ self.sample["detector_parameters"].pixel_scale = DetectorParameters.pixel_scale
  /\ self.numpix = NumPix

\* C5: whatever exception leaves _draw_image_drizzle, the sample,
\* kwargs_numerics and numpix have been restored before it propagates.
C5_DrizzleTransactional ==
  (Called /\ self.do_drizzle /\ ret.exc # "") =>
    /\ self.sample = ret.entry.sample
    /\ self.kwargs_numerics = ret.entry.kwargs_numerics
    /\ self.numpix = ret.entry.numpix


\* the configuration's criteria, read from the configuration module
QuadsOnly == Getattr(self.config_module, "quads_only", FALSE)
DoublesQuadsOnly == Getattr(self.config_module, "doubles_quads_only", FALSE)
PsMagnificationCut == Getattr(self.config_module, "ps_magnification_cut", None)

\* the mean of the absolute values of the entries of mags is below cut
MeanAbsBelow(mags, cut) ==
  SumSeq([i \in 1 .. Len(mags) |-> Abs(mags[i])]) < cut * Len(mags)

\* the rejection condition of the criteria evaluator for n images with the
\* (perturbed) magnifications mags, None when they could not be computed
RejectionCondition(n, mags) ==
  \/ n > 5
  \/ n < 2
  \/ DoublesQuadsOnly /\ n \notin {2, 4}
  \/ QuadsOnly /\ n # 4
  \/ /\ PsMagnificationCut # None
     /\ mags # None
     /\ MeanAbsBelow(mags.list, PsMagnificationCut.num)

\* C6: with a point-source layer, the criteria evaluator raises
\* FailedCriteriaError if and only if the image count is above 5 or below 2,
\* or doubles_quads_only is set and the count is neither 2 nor 4, or
\* quads_only is set and the count is not 4, or ps_magnification_cut is set
\* and the mean absolute magnification is below it.  With quads_only, two
\* images give the sentinel (None, None) and four images with no other cut
\* failing do not.
C6_RejectionIffCriteria ==
  (Called /\ ret.ps # None) =>
    /\ (ret.ps.exc = "FailedCriteriaError")
         <=> RejectionCondition(ret.ps.num_images, ret.ps.magnifications)
    /\ (QuadsOnly /\ ret.ps.num_images = 2) => Sentinel
    /\ (QuadsOnly /\ ret.ps.num_images = 4
        /\ ~RejectionCondition(4, ret.ps.magnifications)) => ~Sentinel

\* quads_only is set, four images were found and an image was returned
C6_Witness ==
  /\ Called /\ QuadsOnly /\ ret.ps # None /\ ret.ps.num_images = 4
  /\ ret.returned /\ ret.image # None

PsKey(name, i) == "point_source_parameters_" \o name \o "_" \o ToString(i)

\* slot i of the list q of the images found: its value, NaN beyond the images
SlotValue(q, i) == IF i < Len(q) THEN Num(q[i + 1]) ELSE NaN

\* C7: whenever a render with a point-source layer succeeds, the metadata
\* has the slots 0..3 (and no further slot) of x_image, y_image and
\* magnification; slot i holds the i-th image's value when i is below the
\* image count and NaN otherwise.
C7_FourImageSlots ==
  (Called /\ HasPointSource /\ ret.metadata # None) =>
    /\ \A i \in 0 .. 3 :
         /\ {PsKey("x_image", i), PsKey("y_image", i), PsKey("magnification", i)}
              \subseteq DOMAIN ret.metadata.dict
         /\ ret.metadata.dict[PsKey("x_image", i)] = SlotValue(ret.ps.x_image, i)
         /\ ret.metadata.dict[PsKey("y_image", i)] = SlotValue(ret.ps.y_image, i)
         /\ ret.metadata.dict[PsKey("magnification", i)]
              = SlotValue(ret.ps.magnifications.list, i)
    /\ \A i \in 4 .. 6 :
         {PsKey("x_image", i), PsKey("y_image", i), PsKey("magnification", i)}
           \cap DOMAIN ret.metadata.dict = {}

\* a render that found three images succeeded: slot 3 holds NaN
C7_Witness ==
  /\ Called /\ HasPointSource /\ ret.metadata # None
  /\ ret.ps.num_images = 3
  /\ ret.metadata.dict[PsKey("x_image", 3)] = NaN
  /\ ret.metadata.dict[PsKey("x_image", 2)] # NaN

\* the sample asks for time delays and has no kappa_ext
WantsTimeDelaysWithoutKappa ==
  /\ HasPointSource
  /\ self.sample["point_source_parameters"].compute_time_delays = Bool(TRUE)
  /\ "kappa_ext" \notin DOMAIN self.sample["point_source_parameters"]

\* C8 as stated: when time delays are requested and kappa_ext is absent,
\* draw_image fails with a ValueError for every sample, whatever its image
\* count and magnifications.
C8_AlwaysValueError ==
  (Called /\ WantsTimeDelaysWithoutKappa) => ret.exc = "ValueError"

\* C8 as amended: when time delays are requested and kappa_ext is absent,
\* no render succeeds; draw_image fails with a ValueError for every sample
\* that passes the selection criteria (which are checked first), and
\* returns (None, None) for a sample that fails one of them: the
\* magnification cut, which rejects before the point-source images are
\* looked for, or a criterion of the point-source evaluator.
C8_ValueErrorWhenCriteriaPass ==
  (Called /\ WantsTimeDelaysWithoutKappa) =>
    /\ ret.image = None
    /\ ret.ps = None => self.mag_cut # None /\ Sentinel
    /\ ret.ps # None =>
         /\ ~RejectionCondition(ret.ps.num_images, ret.ps.magnifications)
              => ret.exc = "ValueError" /\ ~ret.returned
         /\ RejectionCondition(ret.ps.num_images, ret.ps.magnifications) => Sentinel

\* a sample with two to five images passed the criteria and the missing
\* kappa_ext raised the ValueError
C8_Witness ==
  /\ Called /\ WantsTimeDelaysWithoutKappa
  /\ ret.ps.num_images \in 2 .. 5 /\ ret.ps.magnifications # None
  /\ ret.exc = "ValueError"

\* the seed of the call just made, which left reseed_counter at k + 1: the
\* base seed when k = 0, base_seed + (k,) when k >= 1
SeedOfCall == IF self.reseed_counter = 1 THEN self.base_seed
              ELSE Append(self.base_seed, self.reseed_counter - 1)

\* C9: the metadata a call returns has the key 'seed', and its value is the
\* seed tuple this call's reseed() installed, on the standard and on the
\* drizzle path.
C9_SeedStamped ==
  (Called /\ ret.metadata # None) =>
    /\ "seed" \in DOMAIN ret.metadata.dict
    /\ ret.metadata.dict["seed"] = Tuple(SeedOfCall)
    /\ ret.seed = SeedOfCall

\* a call on a drizzle handler that had been reseeded once before returned
\* metadata
C9_Witness ==
  /\ Called /\ self.do_drizzle /\ ret.metadata # None
  /\ ret.metadata.dict["seed"] = Tuple(Append(self.base_seed, 1))

MaskConfigured == "mask_radius" \in DOMAIN self.config_module

\* pixel (i, j) (0-based) of an n x n image is within radius of the centre
\* ((n-1)/2, (n-1)/2), its offsets multiplied by scale: the distance is the
\* double that the square root of the sum of the squares of the two
\* coordinates gives
WithinRadius(i, j, n, scale, radius) ==
  SqrtAtMost(FloatAdd(FloatMul(make_grid(j, n, ToFloat(scale)), make_grid(j, n, ToFloat(scale))),
                      FloatMul(make_grid(i, n, ToFloat(scale)), make_grid(i, n, ToFloat(scale)))),
             ToFloat(radius))

\* pixel (i, j) is within radius by more than the rounding of doubles can
\* account for: on the real numbers that scale and radius denote,
\*   ((2i - n + 1)^2 + (2j - n + 1)^2) * scale^2 <= 4 * radius^2 * (1 - 2^-40)
WellWithinRadius(i, j, n, scale, radius) ==
  LET s == ToFloat(scale)
      r == MulSmall(Mul(ToFloat(radius).m, ToFloat(radius).m), 4, 0)
      k == (2 * i - n + 1) * (2 * i - n + 1) + (2 * j - n + 1) * (2 * j - n + 1)
  IN ~FloatLess([m |-> Sub(Shl(r, 40), r), e |-> 2 * ToFloat(radius).e - 40],
                [m |-> Trim(MulSmall(Mul(s.m, s.m), k, 0)), e |-> 2 * s.e])

LayerLos(sample, dl) ==
  IF self.los_class # None THEN draw_los(sample, dl) ELSE NoModels
LayerSubhalos(sample, ds) ==
  IF self.subhalo_class # None THEN draw_subhalos(sample, ds) ELSE NoModels
LayerMain(sample) ==
  IF self.main_deflector_class # None THEN draw_main_deflector(sample) ELSE NoModels

\* the lens-side lists of bundle b are the layers los, subhalo,
\* main_deflector one after the other, names, kwargs and redshifts alike
LensSideInOrder(b, los, sub, main) ==
  /\ b.kwargs_model.lens_model_list = los.models \o sub.models \o main.models
  /\ b.kwargs_params.kwargs_lens = los.kwargs \o sub.kwargs \o main.kwargs
  /\ b.kwargs_model.lens_redshift_list = los.z \o sub.z \o main.z

\* the lists of bundle b have the lengths of their model lists
BundleAligned(b) ==
  /\ Len(b.kwargs_model.lens_model_list) = Len(b.kwargs_params.kwargs_lens)
  /\ Len(b.kwargs_model.lens_model_list) = Len(b.kwargs_model.lens_redshift_list)
  /\ Len(b.kwargs_model.lens_light_model_list) = Len(b.kwargs_params.kwargs_lens_light)
  /\ Len(b.kwargs_model.point_source_model_list) = Len(b.kwargs_params.kwargs_ps)
  /\ Len(b.kwargs_model.source_light_model_list) = Len(b.kwargs_params.kwargs_source)

\* C11: every bundle get_lenstronomy_models_kwargs returns (new_sample True
\* or False) has model, kwargs and redshift lists of equal length for each
\* layer, and its lens-side lists are the lists of the present layers los,
\* subhalo, main_deflector concatenated in that order, entry i of the kwargs
\* belonging to entry i of the models.
C11_BundleListsAligned ==
  \A new_sample \in BOOLEAN :
    LET b == get_lenstronomy_models_kwargs(Proc, new_sample)
        sample == get_current_sample(b.p)
    IN /\ BundleAligned(b)
       /\ \E dl \in 0 .. RngMod - 1, ds \in 0 .. RngMod - 1 :
            LensSideInOrder(b, LayerLos(sample, dl), LayerSubhalos(sample, ds),
                            LayerMain(sample))
       /\ self.lens_light_class = None => b.kwargs_model.lens_light_model_list = <<>>
       /\ self.point_source_class = None => b.kwargs_model.point_source_model_list = <<>>

\* a handler with the three lens-side layers has rendered, and its bundle
\* has line-of-sight halos, subhalos and the main deflector
C11_Witness ==
  /\ Called /\ ret.returned
  /\ self.los_class # None /\ self.subhalo_class # None
  /\ self.lens_light_class # None /\ self.point_source_class # None
  /\ LET b == get_lenstronomy_models_kwargs(Proc, FALSE)
     IN /\ Len(b.kwargs_model.lens_model_list) >= 5
        /\ "TNFW" \in Range(b.kwargs_model.lens_model_list)
        /\ b.kwargs_model.multi_plane

\* the value is a Python bool / a str, int, float (numpy.nan is a float) or None
IsPythonBool(v) == DOMAIN v = {"bool"}
IsPassedThrough(v) == DOMAIN v \in {{"str"}, {"num"}, {"float"}, {"nan"}, {"none"}}

\* the (component, parameter) pairs of the sample that get a key
FlattenedPairs(sample) ==
  {ck \in (DOMAIN sample) \X UNION {DOMAIN sample[c] : c \in DOMAIN sample} :
     /\ ck[2] \in DOMAIN sample[ck[1]]
     /\ ck \notin {<<"source_parameters", "source_inclusion_list">>,
                   <<"drizzle_parameters", "offset_pattern">>,
                   <<"source_parameters", "cosmos_folder">>}
     /\ IsPythonBool(sample[ck[1]][ck[2]]) \/ IsPassedThrough(sample[ck[1]][ck[2]])}

\* md has the key '<component>_<parameter>' of every pair that gets one, a
\* bool as 0 or 1 and any other value unchanged
FlattenedInto(sample, md) ==
  \A ck \in FlattenedPairs(sample) :
    /\ ck[1] \o "_" \o ck[2] \in DOMAIN md
    /\ md[ck[1] \o "_" \o ck[2]] =
         IF IsPythonBool(sample[ck[1]][ck[2]])
         THEN [num |-> IF sample[ck[1]][ck[2]].bool THEN 1 ELSE 0]
         ELSE sample[ck[1]][ck[2]]

FlattenedKeys(sample) == {ck[1] \o "_" \o ck[2] : ck \in FlattenedPairs(sample)}

\* the keys get_metadata derives when the module asks for them
DerivedKeys ==
  (IF self.compute_caustic_area
   THEN {"main_deflector_parameters_caustic_area",
         "source_parameters_distance_to_caustic"} ELSE {})
  \cup (IF self.compute_mass_enclosed
        THEN {"main_deflector_parameters_M_encl_15e-1arcsec"} ELSE {})

\* C12 as stated: get_metadata gives the key '<component>_<parameter>' to
\* every bool (as 0 or 1) and every str, int, float or None (unchanged) of
\* the sample that EXCLUDE_FROM_METADATA does not name, and no other key.
C12_FlattenedKeysOnly ==
  /\ FlattenedInto(self.sample, get_metadata(Proc).metadata)
  /\ DOMAIN get_metadata(Proc).metadata = FlattenedKeys(self.sample)

\* C12 as amended: the same keys and values, and besides them only the
\* keys of the caustic area and the distance to the caustic when
\* compute_caustic_area is set, and of the enclosed mass when
\* compute_mass_enclosed is set.
C12_FlattenedAndDerivedKeys ==
  /\ FlattenedInto(self.sample, get_metadata(Proc).metadata)
  /\ DOMAIN get_metadata(Proc).metadata = FlattenedKeys(self.sample) \cup DerivedKeys
  /\ DerivedKeys \cap FlattenedKeys(self.sample) = {}

\* a render returned metadata with a bool as 1, the caustic area, and
\* neither the excluded string nor the list
C12_Witness ==
  /\ Called /\ ret.metadata # None
  /\ self.compute_caustic_area
  /\ "source_exclusion_list" \in DOMAIN self.sample["source_parameters"]
  /\ "source_parameters_random_rotation" \in DOMAIN ret.metadata.dict
  /\ ret.metadata.dict["source_parameters_random_rotation"] = Num(1)
  /\ "main_deflector_parameters_caustic_area" \in DOMAIN ret.metadata.dict
  /\ "source_parameters_cosmos_folder" \notin DOMAIN ret.metadata.dict
  /\ "source_parameters_source_exclusion_list" \notin DOMAIN ret.metadata.dict
  /\ "source_parameters_catalog_i" \in DOMAIN get_metadata(Proc).metadata

\* the sample has a parameter that get_metadata can neither write nor is
\* told to leave out
HasUnwritable(sample) ==
  \E c \in DOMAIN sample : \E k \in DOMAIN sample[c] :
    /\ <<c, k>> \notin FlattenedPairs(sample)
    /\ <<c, k>> \notin {<<"source_parameters", "source_inclusion_list">>,
                        <<"drizzle_parameters", "offset_pattern">>,
                        <<"source_parameters", "cosmos_folder">>}

\* this step is a draw_image call whose render came to get_metadata (a
\* rejection by mag_cut comes before it)
MetadataComputed ==
  /\ ret'.calls = ret.calls + 1
  /\ ~(ret'.raised = "FailedCriteriaError" /\ ret'.ps = None)

\* this step is the caller's call of get_metadata
MetadataCalled ==
  ret'.op = "get_metadata" /\ ret'.others = ret.others + 1

\* one step of the process, as to the serialization warning
SerializationWarningStep ==
  /\ warned'.serialization \in {warned.serialization, warned.serialization + 1}
  /\ warned'.serialization # warned.serialization
       => /\ warned.serialization = 0
          /\ MetadataComputed \/ MetadataCalled
          /\ HasUnwritable(self'.sample)
  /\ ((MetadataComputed \/ MetadataCalled) /\ HasUnwritable(self'.sample))
       => warned'.serialization = 1

\* C13: over any sequence of handlers built and get_metadata calls made in
\* one process (by the caller or by a render), the serialization warning is
\* given exactly once, by the first get_metadata call that meets a parameter
\* it cannot write and is not told to leave out, and never again.
C13_SerializationWarnedOnce ==
  (warned.serialization = 0) /\ [][SerializationWarningStep]_vars

\* the warning has been given once although two handlers of the process
\* have computed metadata, the later of a sample with a list
C13_Witness ==
  /\ warned.serialization = 1 /\ ~SERIALIZATIONWARNING
  /\ self.config_module = LaterModule /\ HasUnwritable(self.sample)
  /\ self.reseed_counter >= 1 /\ ret.calls > self.reseed_counter
  /\ ret.metadata # None

\* C14: once a drizzle render has adjusted supersampling_factor
\* (point_source_supersampling_factor) of kwargs_numerics, the warning of
\* that adjustment has been given exactly once in the process.
C14_AdjustmentWarnedOnce ==
  (Called /\ self.do_drizzle) =>
    /\ "supersampling_factor" \in DOMAIN ret.entry.kwargs_numerics
         => warned.numerics1 = 1
    /\ "point_source_supersampling_factor" \in DOMAIN ret.entry.kwargs_numerics
         => warned.numerics2 = 1

IsCatalog == self.source_class = Str("GalaxyCatalog")

\* C15: the metadata a successful drizzle render returns has, for every
\* parameter of the restored (pre-call) sample that get_metadata writes, the
\* restored sample's value, detector_parameters_pixel_scale being the
\* detector's and not the supersample pixel scale; the keys only the
\* high-resolution render produces are kept: the point-source slots, and
\* catalog_i and phi, which are there also when the restored sample has
\* neither.
C15_DrizzleMetadataOfRestoredSample ==
  (Called /\ self.do_drizzle /\ ret.metadata # None) =>
    /\ FlattenedInto(ret.entry.sample, ret.metadata.dict)
    /\ ret.metadata.dict["detector_parameters_pixel_scale"]
         = ret.entry.sample["detector_parameters"].pixel_scale
    /\ ret.metadata.dict["detector_parameters_pixel_scale"]
         # ret.entry.sample["drizzle_parameters"].supersample_pixel_scale
    /\ HasPointSource =>
         /\ ret.metadata.dict[PsKey("x_image", 0)] = SlotValue(ret.ps.x_image, 0)
         /\ ret.metadata.dict["point_source_parameters_num_images"]
              = Num(ret.ps.num_images)
    /\ IsCatalog =>
         {"source_parameters_catalog_i", "source_parameters_phi"}
           \subseteq DOMAIN ret.metadata.dict

\* a drizzle render of a catalog source with a point source succeeded
C15_Witness ==
  /\ Called /\ self.do_drizzle /\ ret.metadata # None
  /\ HasPointSource /\ IsCatalog
  /\ ret.metadata.dict["detector_parameters_pixel_scale"]
       = DetectorParameters.pixel_scale
  /\ ret.entry.sample["drizzle_parameters"].supersample_pixel_scale
       = DrizzleBase.supersample_pixel_scale
  /\ "source_parameters_catalog_i" \in DOMAIN ret.metadata.dict
  /\ "catalog_i" \notin DOMAIN ret.entry.sample["source_parameters"]

\* the high-resolution render of the last drizzle call was accepted: it
\* raised nothing
HighResAccepted ==
  /\ Called /\ self.do_drizzle
  /\ ret.raised # "FailedCriteriaError"
  /\ ret.ps # None => ret.ps.exc = ""

\* the PSF-supersampling factor of the sample the call rendered
PsfSupersampleFactor ==
  IF "psf_supersample_factor" \in DOMAIN ret.entry.sample["drizzle_parameters"]
  THEN ret.entry.sample["drizzle_parameters"].psf_supersample_factor.num
  ELSE 1

\* the factor is greater than detector pixel scale / supersample pixel
\* scale, the pixel scales as the configuration states them (in arcsec, to
\* two decimals)
FactorAboveRatio ==
  PsfSupersampleFactor
    * Hundredths(ret.entry.sample["drizzle_parameters"].supersample_pixel_scale)
  > Hundredths(ret.entry.sample["detector_parameters"].pixel_scale)

\* a PIXEL psf whose point_source_supersampling_factor is missing or is not
\* the factor
PixelPsfMismatch ==
  /\ ret.entry.sample["psf_parameters"].psf_type = Str("PIXEL")
  /\ \/ "point_source_supersampling_factor"
          \notin DOMAIN ret.entry.sample["psf_parameters"]
     \/ ret.entry.sample["psf_parameters"].point_source_supersampling_factor
          # Num(PsfSupersampleFactor)

\* C16: after an accepted high-resolution render, the drizzle render fails
\* with a ValueError exactly when the PSF-supersampling factor (1 when
\* drizzle_parameters has none) is greater than the supersampling ratio, or
\* the psf is a PIXEL psf whose point_source_supersampling_factor is missing
\* or differs from the factor; otherwise it returns an image.
C16_PsfFactorChecks ==
  HighResAccepted =>
    /\ ret.exc = "ValueError" <=> (FactorAboveRatio \/ PixelPsfMismatch)
    /\ ~(FactorAboveRatio \/ PixelPsfMismatch) => ret.returned /\ ret.image # None

\* the seed of the call made when reseed_counter is k
SeedAt(k) == IF k = 0 THEN self.base_seed ELSE Append(self.base_seed, k)

\* one draw_image call, as to the seeds: this call's seed is the one of the
\* counter before the call, the counter goes up by one however the call
\* ends, numba's generator holds the first value of the freshly seeded numpy
\* generator, and a new sample is drawn from the generator after that
ReseedStep ==
  ret'.calls = ret.calls + 1 =>
    /\ ret'.seed = SeedAt(self.reseed_counter)
    /\ self'.reseed_counter = self.reseed_counter + 1
    /\ self'.base_seed = self.base_seed
    /\ numba_random' = SeedState(ret'.seed)
    /\ ret'.new_sample =>
         self'.sample["main_deflector_parameters"].theta_E
           = Num(RngNext(SeedState(ret'.seed)))
    /\ ~ret'.new_sample =>
         self'.sample["main_deflector_parameters"].theta_E
           = self.sample["main_deflector_parameters"].theta_E
    /\ \A j \in 0 .. self.reseed_counter - 1 : SeedAt(j) # ret'.seed

\* C17: every draw_image call reseeds numpy's and numba's generators before
\* the sample is drawn, with the base seed when reseed_counter = 0 and
\* base_seed + (k,) when reseed_counter = k >= 1, and leaves the counter at
\* k + 1 whether it returns an image, returns (None, None) or raises; no two
\* calls on one handler use the same seed.
C17_ReseedEveryCall == [][ReseedStep]_vars

\* a call that raised was the second draw_image call on its handler: it
\* used base_seed + (1,) and left the counter at 2
C17_Witness ==
  /\ Called /\ ret.calls = 2 /\ ret.exc = "ValueError"
  /\ self.reseed_counter = 2
  /\ ret.seed = Append(self.base_seed, 1)
  /\ numba_random = SeedState(ret.seed)

\* the sample asks for time delays, has kappa_ext and no mag_pert, and the
\* evaluator found an image count and magnifications that pass the criteria
TimeDelaysDue ==
  /\ Called /\ HasPointSource /\ ret.ps # None
  /\ self.sample["point_source_parameters"].compute_time_delays = Bool(TRUE)
  /\ "kappa_ext" \in DOMAIN self.sample["point_source_parameters"]
  /\ "mag_pert" \notin DOMAIN self.sample["point_source_parameters"]
  /\ ret.ps.num_images \in 2 .. 5
  /\ ~RejectionCondition(ret.ps.num_images, ret.ps.magnifications)

\* C18: when time delays are requested and kappa_ext is present, for every
\* accepted image count (2 to 5), with or without time_delay_errors, the
\* evaluator completes without error, time_delay_0 is zero and the slots
\* time_delay_0 .. time_delay_3 are all written, NaN beyond the images.
C18_TimeDelaysComplete ==
  TimeDelaysDue =>
    /\ ret.ps.exc = ""
    /\ ret.metadata # None =>
         /\ \A i \in 0 .. 3 : PsKey("time_delay", i) \in DOMAIN ret.metadata.dict
         /\ ret.metadata.dict[PsKey("time_delay", 0)] = Num(0)
         /\ \A i \in 0 .. 3 :
              i >= ret.ps.num_images => ret.metadata.dict[PsKey("time_delay", i)] = NaN

\* the slots i of 0..3 of metadata md whose x_image_i, y_image_i and
\* magnification_i are all recorded (none is NaN)
RecordedSlots(md) ==
  {i \in 0 .. 3 : /\ md[PsKey("x_image", i)] # NaN
                  /\ md[PsKey("y_image", i)] # NaN
                  /\ md[PsKey("magnification", i)] # NaN}

\* the slots of which any of the three is recorded
TouchedSlots(md) ==
  {i \in 0 .. 3 : \/ md[PsKey("x_image", i)] # NaN
                  \/ md[PsKey("y_image", i)] # NaN
                  \/ md[PsKey("magnification", i)] # NaN}

\* C19 as stated: in the metadata of every successful render with a point
\* source, point_source_parameters_num_images is the number of slots of
\* 0..3 whose x_image, y_image and magnification are all recorded.
C19_NumImagesIsRecordedSlots ==
  (Called /\ HasPointSource /\ ret.metadata # None) =>
    ret.metadata.dict["point_source_parameters_num_images"]
      = Num(Cardinality(RecordedSlots(ret.metadata.dict)))

\* C19 as amended: num_images is the number of images found, between 2 and
\* 5; the recorded slots are the first min(num_images, 4) slots, each with
\* all three values, so num_images is the number of recorded slots when it
\* is at most 4, and with 5 images the fifth has no slot.
C19_RecordedSlotsAreFirstFour ==
  (Called /\ HasPointSource /\ ret.metadata # None) =>
    /\ ret.metadata.dict["point_source_parameters_num_images"] = Num(ret.ps.num_images)
    /\ ret.ps.num_images \in 2 .. 5
    /\ RecordedSlots(ret.metadata.dict) = 0 .. (Min(ret.ps.num_images, 4) - 1)
    /\ TouchedSlots(ret.metadata.dict) = RecordedSlots(ret.metadata.dict)

\* a render that found five images succeeded: four slots are recorded
C19_Witness ==
  /\ Called /\ HasPointSource /\ ret.metadata # None
  /\ ret.metadata.dict["point_source_parameters_num_images"] = Num(5)
  /\ RecordedSlots(ret.metadata.dict) = 0 .. 3

=============================================================================
